---- MODULE Spec2Model ----
(***************************************************************************)
(* Order coordination and reconciliation core of ritmex-bot:               *)
(*   - makeOrderPlan            (src/src/core/lib/order-plan.ts)            *)
(*   - the order coordinator    (src/src/core/order-coordinator.ts)         *)
(*   - VolumeMakerEngine        (src/src/strategy/common/session-volume.ts) *)
(* Prices are integers in units of half a price tick (0.05 when the tick   *)
(* is 0.1); amounts are integers in units of 1e-5.                          *)
(***************************************************************************)
EXTENDS Integers, Sequences, FiniteSets, Bags, TLC

VARIABLES
  planIn,      \* makeOrderPlan: the arguments [O, D, tol] of the call
  planOut,     \* makeOrderPlan: the returned [toCancel, toPlace], done once it returned
  locks,       \* OrderLockMap: key -> locked
  timers,      \* OrderTimerMap: key -> "null" | "armed" | "fired" (a stale handle)
  pendings,    \* OrderPendingMap: key -> String(orderId) or NULL
  holder,      \* observation: the arguments of the operation that last took each key
  calls,       \* the coordinator calls in progress, each with its position
  dual,        \* the call of placeAtomicDualWithStops: its position, requests, result
  eng,         \* VolumeMakerEngine: its fields and the position of its tick
  venue,       \* the orders open at the venue
  hedge,       \* GrvtHedgeEngine: its fields and the handlers awaiting the venue
  stopLoss,    \* shouldStopLoss: the arguments of the call, whether it returned, and what
  lastReturn,  \* the call that returned in the step just taken, NoReturn when none did
  lastLog      \* the line handed to the LogHandler by the step just taken, else NoLog

planVars == <<planIn, planOut>>

\* the functions and engines that share no state with the coordinator and the maker
otherVars == <<stopLoss, hedge>>

lockVars == <<locks, timers, pendings, holder>>

coordVars == <<locks, timers, pendings, holder, calls, lastReturn, lastLog>>

\* what the coordinator's operations leave alone
engVars == <<eng, venue>>

nonCoordVars == <<planIn, planOut, stopLoss, hedge, dual, eng, venue>>

vars == <<planIn, planOut, stopLoss, hedge, dual, eng, venue, locks, timers, pendings, holder, calls, lastReturn, lastLog>>

NULL == "null"

\* Number(x) of a string that is not a number
NaN == 0 - 1

IsFinite(n) == n # NaN

\* a field the request does not carry, an argument that is null or undefined
Absent == 0 - 2

Abs(n) == IF n < 0 THEN 0 - n ELSE n

Max(a, b) == IF a >= b THEN a ELSE b

(***************************************************************************)
(* Price strings and Number(price): "100" and "100.0" are different        *)
(* strings with the same number.                                           *)
(***************************************************************************)
PriceStrings == {"100", "100.0", "100.05", "100.1", "100.15", "100.3", "abc"}

Number(s) ==
  CASE s = "100"    -> 2000
    [] s = "100.0"  -> 2000
    [] s = "100.05" -> 2001
    [] s = "100.1"  -> 2002
    [] s = "100.15" -> 2003
    [] s = "100.3"  -> 2006
    [] s = "0"      -> 0
    [] s = "99.8"   -> 1996
    [] s = "99.9"   -> 1998
    [] s = "100.2"  -> 2004
    [] s = "100.4"  -> 2008
    [] OTHER        -> NaN

\* order-plan.ts:47  t.amount > 1e-5, in units of 1e-5
DustEps == 1

(***************************************************************************)
(* makeOrderPlan                                                            *)
(***************************************************************************)
\* order-plan.ts:15-17
PlanTolerance(tol) == IF IsFinite(tol) THEN Max(0, tol) ELSE 0

\* order-plan.ts:26-30
PriceEqual(orderPrice, targetPrice, tolerance) ==
  IF tolerance > 0 /\ IsFinite(Number(orderPrice)) /\ IsFinite(Number(targetPrice))
    THEN Abs(Number(orderPrice) - Number(targetPrice)) <= tolerance
    ELSE orderPrice = targetPrice

\* order-plan.ts:31-36 without the unmatched test
TargetMatches(order, target, tolerance) ==
  /\ target.side = order.side
  /\ target.reduceOnly = (order.reduceOnly = TRUE)
  /\ PriceEqual(order.price, target.price, tolerance)

\* a findIndex that does not ask whether the target is still unmatched
FindIndex_Reuse(order, targets, unmatched, tolerance) ==
  LET hits == {i \in DOMAIN targets : TargetMatches(order, targets[i], tolerance)}
  IN IF hits = {} THEN 0 ELSE CHOOSE i \in hits : \A j \in hits : i <= j

\* order-plan.ts:25-37  targets.findIndex(...): the first index, or 0 for -1
FindIndex(order, targets, unmatched, tolerance) ==
  LET hits == {i \in unmatched : TargetMatches(order, targets[i], tolerance)}
  IN IF hits = {} THEN 0 ELSE CHOOSE i \in hits : \A j \in hits : i <= j

\* order-plan.ts:21-43  the loop over openOrders, from order k on
RECURSIVE PlanLoop(_, _, _, _, _, _)
PlanLoop(openOrders, targets, tolerance, k, unmatched, toCancel) ==
  IF k > Len(openOrders)
    THEN [unmatched |-> unmatched, toCancel |-> toCancel]
    ELSE LET m == FindIndex(openOrders[k], targets, unmatched, tolerance)
         IN IF m > 0
              THEN PlanLoop(openOrders, targets, tolerance, k + 1, unmatched \ {m}, toCancel)
              ELSE PlanLoop(openOrders, targets, tolerance, k + 1, unmatched,
                            Append(toCancel, openOrders[k]))

\* the elements of s at the indices in idx, in index order
RECURSIVE PickInOrder(_, _, _)
PickInOrder(s, idx, k) ==
  IF k > Len(s) THEN <<>>
  ELSE IF k \in idx THEN <<s[k]>> \o PickInOrder(s, idx, k + 1)
  ELSE PickInOrder(s, idx, k + 1)

\* a dust test that lets an amount of exactly 1e-5 through
NotDust_AtLeast(t) == t.amount >= DustEps

\* order-plan.ts:47
NotDust(t) == t.amount > DustEps

\* order-plan.ts:45-47
ToPlaceOf(targets, unmatched) ==
  PickInOrder(targets, {i \in unmatched : NotDust(targets[i])}, 1)

\* order-plan.ts:10-50
makeOrderPlan(openOrders, targets, tol) ==
  LET tolerance == PlanTolerance(tol)
      r == PlanLoop(openOrders, targets, tolerance, 1, DOMAIN targets, <<>>)
  IN [done |-> TRUE, toCancel |-> r.toCancel,
      toPlace |-> ToPlaceOf(targets, r.unmatched)]

(***************************************************************************)
(* The order coordinator: lock primitives                                  *)
(***************************************************************************)
LockKeys == {"LIMIT", "STOP_MARKET", "TRAILING_STOP_MARKET"}

Sides == {"BUY", "SELL"}

\* one line handed to the log handler: its category, what it reports, the key it names
Log(type, what, key) == [type |-> type, what |-> what, key |-> key]

NoLog == Log("none", "none", "none")

\* the three maps as one value, so that the primitives are functions on it
LockState == [locks |-> locks, timers |-> timers, pendings |-> pendings]

\* order-coordinator.ts:45-47
\* an isOperating that never sees a lock
isOperating_Never(L, type) == FALSE

isOperating(L, type) == L.locks[type]

\* a lock that arms no expiry timer
lockOperating_NoTimer(L, type) == [L EXCEPT !.locks[type] = TRUE]

\* order-coordinator.ts:49-66  (the timer callback is TimerExpire)
lockOperating(L, type) ==
  [L EXCEPT !.locks[type] = TRUE, !.timers[type] = "armed"]

\* an unlock that leaves the pending id in place
unlockOperating_KeepPending(L, type) ==
  [L EXCEPT !.locks[type] = FALSE, !.timers[type] = NULL]

\* order-coordinator.ts:68-80
unlockOperating(L, type) ==
  [L EXCEPT !.locks[type] = FALSE, !.pendings[type] = NULL, !.timers[type] = NULL]

\* order-coordinator.ts:61-65  the body of the setTimeout callback
timeoutCallback(L, type) ==
  [L EXCEPT !.locks[type] = FALSE, !.pendings[type] = NULL, !.timers[type] = "fired"]

SetLockState(L) ==
  /\ locks' = L.locks
  /\ timers' = L.timers
  /\ pendings' = L.pendings

(***************************************************************************)
(* deduplicateOrders: the pure part                                        *)
(***************************************************************************)
\* String(o.type).toUpperCase()
ToUpperCase(t) ==
  CASE t = "limit" -> "LIMIT"
    [] t = "stop_market" -> "STOP_MARKET"
    [] OTHER -> t

\* order-coordinator.ts:96  Number.isFinite(Number(o.stopPrice)) && Number(o.stopPrice) > 0
IsStopLike(o) == IsFinite(o.stopPrice) /\ o.stopPrice > 0

\* order-coordinator.ts:94-100
SameType(o, type, side) ==
  \/ ToUpperCase(o.type) = type /\ o.side = side
  \/ type = "STOP_MARKET" /\ IsStopLike(o) /\ o.side = side

SameTypeOrders(openOrders, type, side) ==
  SelectSeq(openOrders, LAMBDA o : SameType(o, type, side))

\* order-coordinator.ts:103-104  x.updateTime || x.time || 0
SortKey(o) == IF o.updateTime # 0 THEN o.updateTime ELSE o.time

\* a comparator that sorts the oldest first
ComesBefore_Oldest(a, b) == SortKey(a) - SortKey(b) < 0

\* order-coordinator.ts:102-106  the comparator is negative: a sorts before b
ComesBefore(a, b) == SortKey(b) - SortKey(a) < 0

\* Array.prototype.sort is stable: x goes after every element it does not precede
RECURSIVE InsertSorted(_, _)
InsertSorted(x, sorted) ==
  IF sorted = <<>> THEN <<x>>
  ELSE IF ComesBefore(x, Head(sorted)) THEN <<x>> \o sorted
  ELSE <<Head(sorted)>> \o InsertSorted(x, Tail(sorted))

RECURSIVE SortOrders(_)
SortOrders(s) ==
  IF s = <<>> THEN <<>>
  ELSE InsertSorted(s[Len(s)], SortOrders(SubSeq(s, 1, Len(s) - 1)))

\* order-coordinator.ts:94-109  the orderIdList, empty when nothing is to be cancelled
DedupeIdList(openOrders, type, side) ==
  LET same == SameTypeOrders(openOrders, type, side)
  IN IF Len(same) <= 1 THEN <<>>
     ELSE LET toCancel == Tail(SortOrders(same))
          IN [i \in DOMAIN toCancel |-> toCancel[i].orderId]

(***************************************************************************)
(* VolumeMakerEngine: its fields                                           *)
(***************************************************************************)
\* the position of the account snapshot; entryPrice 0 when it is not known
Position(amt, entry) == [positionAmt |-> amt, entryPrice |-> entry]

\* observation: what checkRisk did in a tick
NoRisk == [checked |-> FALSE, ran |-> FALSE, stopId |-> 0, existing |-> NaN, target |-> NaN, lastPrice |-> NaN,
           cancelled |-> FALSE, called |-> FALSE, created |-> FALSE]

\* observation: what the insufficient-balance state did to the intents of a tick
NoBalance == [cooling |-> FALSE, applied |-> FALSE, active |-> FALSE, recovered |-> FALSE,
              closeDesired |-> FALSE, entryDesired |-> FALSE, entryPlaced |-> FALSE]

\* observation: the tick that has just ended
NoTick == [decision |-> "none", blocked |-> FALSE, position |-> Position(0, 0),
           risk |-> NoRisk, cancelSent |-> FALSE, exit |-> "none", ready |-> FALSE,
           hadRateLimit |-> FALSE, stopCancelSent |-> FALSE, venueRateLimited |-> FALSE,
           balance |-> NoBalance]

\* the RateLimitController: paused until a deadline, and the failure streak
NormalRate == [paused |-> FALSE, failing |-> FALSE]

\* session-volume.ts:162-167  feedStatus: no feed has delivered a snapshot
NoFeeds == [account |-> FALSE, depth |-> FALSE, ticker |-> FALSE, orders |-> FALSE]

\* session-volume.ts:127-160  the fields of a constructed engine
NoEng == [pc |-> "idle", processing |-> FALSE, feedStatus |-> NoFeeds,
          initialOrderSnapshotReady |-> FALSE, initialOrderResetDone |-> FALSE,
          exit |-> "end",
          rate |-> NormalRate, position |-> Position(0, 0),
          top |-> [bid |-> 2000, ask |-> 2002],
          guard |-> "inBand", entryPricePendingLogged |-> FALSE,
          openOrders |-> <<>>, pendingCancel |-> {}, cancels |-> {}, awaited |-> {},
          toPlace |-> <<>>, toFlush |-> <<>>, flushing |-> 0,
          decision |-> "none", blocked |-> FALSE, hadRateLimit |-> FALSE, after |-> "end",
          risk |-> NoRisk, cancelSent |-> FALSE, stopCancelSent |-> FALSE,
          venueRateLimited |-> FALSE,
          cooldown |-> FALSE, insufficientBalanceNotified |-> FALSE,
          balance |-> NoBalance, lastTick |-> NoTick]

EngIdle == eng = NoEng /\ venue = {}

(***************************************************************************)
(* Coordinator calls                                                       *)
(***************************************************************************)
MaxCalls == 2

CallIds == 1..MaxCalls

\* the arguments of a coordinator operation; price is the string handed to
\* placeOrder, stopPrice and lastPrice are numbers, lastPrice NaN when it is null
NoInput == [op |-> "none", side |-> "BUY", reduceOnly |-> FALSE, skipDedupe |-> FALSE,
            guard |-> "absent", oo |-> <<>>, type |-> "none",
            price |-> "100", amount |-> 0, stopPrice |-> 0, lastPrice |-> NaN,
            expectedPrice |-> Absent, markPrice |-> Absent]

IdleCall == [inp |-> NoInput, pc |-> "idle", sent |-> <<>>]

\* what an operation is for: its name, side and intent (reduceOnly closes, else opens)
ClassOf(inp) == [op |-> inp.op, side |-> inp.side, reduceOnly |-> inp.reduceOnly]

NoClass == ClassOf(NoInput)

NoReturn == [inp |-> NoInput, sent |-> <<>>, result |-> "none", blockedBy |-> NoClass]

\* the type constant of each operation, which is also its lock key
\* order-coordinator.ts:146, 195, 247, 311, 369, 540
LockKeyOf(inp) ==
  CASE inp.op = "placeOrder" -> "LIMIT"
    [] inp.op = "placeMarketOrder" -> "LIMIT"
    [] inp.op = "marketClose" -> "LIMIT"
    [] inp.op = "placeStopLossOrder" -> "STOP_MARKET"
    [] inp.op = "placeTrailingStopOrder" -> "TRAILING_STOP_MARKET"
    [] inp.op = "deduplicateOrders" -> inp.type
    [] OTHER -> "LIMIT"

\* a guard that lets every price pass
enforceMarkPriceGuard_Off(inp) == TRUE

\* order-coordinator.ts:19-43  isOrderPriceAllowedByMark decides "inBand"/"outOfBand"
enforceMarkPriceGuard(inp) ==
  IF inp.guard = "absent" \/ inp.guard = "noMaxPct" THEN TRUE
  ELSE inp.guard = "inBand"

\* the order id the venue gives to the order created by call c
OrderIdOf(c) == 100 + c

\* the tick and the step the engine hands to the coordinator
\* session-volume.ts:594-595, 680  { priceTick: this.config.priceTick, qtyStep: 0.001 }
PriceTick == 2

QtyStep == 100

\* utils/math: the quantity rounded down to a multiple of the step
roundQtyDownToStep(amount, step) == (amount \div step) * step

\* utils/math: the price rounded down to a multiple of the tick
roundDownToTick(price, tick) == (price \div tick) * tick

\* utils/strategy: entry - loss / qty for a long, entry + loss / qty for a short
calcStopLossPrice(entry, qty, direction, loss) ==
  IF direction = "long" THEN entry - (loss * 100000) \div qty
  ELSE entry + (loss * 100000) \div qty

Params(side, type, quantity, price, stopPrice, reduceOnly, closePosition, tif, trigger) ==
  [side |-> side, type |-> type, quantity |-> quantity, price |-> price,
   stopPrice |-> stopPrice, reduceOnly |-> reduceOnly, closePosition |-> closePosition,
   timeInForce |-> tif, triggerType |-> trigger]

\* order-coordinator.ts:196, 542  guard?.expectedPrice ?? guard?.markPrice ?? null
ExpectedPrice(inp) ==
  IF inp.expectedPrice # Absent THEN inp.expectedPrice
  ELSE IF inp.markPrice # Absent THEN inp.markPrice
  ELSE Absent

\* order-coordinator.ts:198, 544  Number(expected): Number(null) is 0
LimitPriceOf(inp) ==
  IF ExpectedPrice(inp) = Absent THEN 0 ELSE ExpectedPrice(inp)

\* order-coordinator.ts:152-160, 205-213, 263-276, 316-325, 550-558
CreateParams(inp) ==
  CASE inp.op = "placeStopLossOrder" ->
         Params(inp.side, "STOP_MARKET", roundQtyDownToStep(inp.amount, QtyStep), Absent,
                roundDownToTick(inp.stopPrice, PriceTick), "true", "true", "GTC",
                IF inp.side = "BUY" THEN "TAKE_PROFIT" ELSE "STOP_LOSS")
    [] inp.op = "placeMarketOrder" ->
         Params(inp.side, "LIMIT", roundQtyDownToStep(inp.amount, QtyStep),
                LimitPriceOf(inp), Absent,
                IF inp.reduceOnly THEN "true" ELSE "absent", "absent", "IOC", "absent")
    [] inp.op = "marketClose" ->
         Params(inp.side, "LIMIT", inp.amount, LimitPriceOf(inp), Absent,
                "true", "absent", "IOC", "absent")
    [] inp.op = "placeTrailingStopOrder" ->
         \* the activationPrice travels in the stopPrice field; callbackRate is left out
         Params(inp.side, "TRAILING_STOP_MARKET", inp.amount, Absent,
                roundDownToTick(inp.stopPrice, PriceTick), "true", "absent", "GTC", "absent")
    [] OTHER ->
         Params(inp.side, "LIMIT", roundQtyDownToStep(inp.amount, QtyStep),
                Number(inp.price), Absent,
                IF inp.reduceOnly THEN "true" ELSE "absent", "absent", "GTX", "absent")

CreateRequest(inp) == [kind |-> "createOrder", params |-> CreateParams(inp)]

CancelRequest(ids) == [kind |-> "cancelOrders", orderIdList |-> ids]

AllIdle == \A c \in CallIds : calls[c].pc = "idle"

\* session-volume.ts:569-599  toPlace.map(...) is running: each placeOrder runs up to its
\* first await before the next one starts, and before any continuation
SyncRunning == eng.pc = "placing" /\ eng.toPlace # <<>>

\* the tick has a continuation queued: the promise it awaited has settled
EnginePending ==
  \/ SyncRunning
  \/ eng.pc \in {"placing", "stopPlace"} /\ AllIdle
  \/ eng.pc \in {"risk", "flush"}

\* a microtask is queued: timers and venue responses wait until it has run
MicrotaskPending ==
  \/ dual.pc = "resume"
  \/ \E c \in CallIds : calls[c].pc = "resume"
  \/ EnginePending

\* call c returns (or throws) to its caller
Return(c, inp, sent, result, blockedBy) ==
  /\ calls' = [calls EXCEPT ![c] = IdleCall]
  /\ lastReturn' = [inp |-> inp, sent |-> sent, result |-> result, blockedBy |-> blockedBy]

InProgress(c, inp, pc, sent) ==
  /\ calls' = [calls EXCEPT ![c] = [inp |-> inp, pc |-> pc, sent |-> sent]]
  /\ lastReturn' = NoReturn

\* order-coordinator.ts:164-166 (and 215-217, 280-282, 327-329, 561-563):
\* lockOperating, then createOrder is sent
LockAndSubmit(c, inp, sent) ==
  LET key == LockKeyOf(inp)
  IN /\ SetLockState(lockOperating(LockState, key))
     /\ holder' = [holder EXCEPT ![key] = ClassOf(inp)]
     /\ InProgress(c, inp, "submit", Append(sent, CreateRequest(inp)))

\* order-coordinator.ts:82-112  deduplicateOrders up to its await (or its early return)
DedupeBegin(c, inp) ==
  LET key == LockKeyOf(inp)
      ids == DedupeIdList(inp.oo, key, inp.side)
  IN IF ids = <<>>
       THEN /\ IF inp.op = "deduplicateOrders"
                 THEN Return(c, inp, <<>>, "void", NoClass)
                 ELSE InProgress(c, inp, "resume", <<>>)
            /\ lastLog' = NoLog
            /\ UNCHANGED lockVars
       ELSE /\ SetLockState(lockOperating(LockState, key))
            /\ holder' = [holder EXCEPT ![key] = ClassOf(inp)]
            /\ InProgress(c, inp, "dedupe", <<CancelRequest(ids)>>)
            /\ lastLog' = NoLog

\* order-coordinator.ts:250-259  the trigger of the stop is already through lastPrice
ThroughLastPrice(inp) ==
  /\ inp.lastPrice # NaN
  /\ \/ inp.side = "SELL" /\ inp.stopPrice >= inp.lastPrice
     \/ inp.side = "BUY" /\ inp.stopPrice <= inp.lastPrice

\* order-coordinator.ts:146-164 (placeOrder) and the same opening of placeMarketOrder,
\* placeStopLossOrder, placeTrailingStopOrder and marketClose, up to the first await
PlaceBegin(c, inp) ==
  LET key == LockKeyOf(inp)
  IN IF isOperating(LockState, key)
       THEN /\ Return(c, inp, <<>>, "locked", holder[key])
            /\ lastLog' = NoLog
            /\ UNCHANGED lockVars
     ELSE IF ~enforceMarkPriceGuard(inp)
       THEN /\ Return(c, inp, <<>>, "guard", NoClass)
            /\ lastLog' = Log("info", "guard", key)
            /\ UNCHANGED lockVars
     ELSE IF inp.op \in {"placeMarketOrder", "marketClose"} /\ ~IsFinite(LimitPriceOf(inp))
       THEN /\ Return(c, inp, <<>>, "noPrice", NoClass)
            /\ lastLog' = Log("error", "noPrice", key)
            /\ UNCHANGED lockVars
     ELSE IF inp.op = "placeStopLossOrder" /\ ThroughLastPrice(inp)
       THEN /\ Return(c, inp, <<>>, "refused", NoClass)
            /\ lastLog' = Log("error", "refused", key)
            /\ UNCHANGED lockVars
     ELSE IF inp.skipDedupe
       THEN LockAndSubmit(c, inp, <<>>) /\ lastLog' = NoLog
     ELSE DedupeBegin(c, inp)

\* a call of a placement operation, or of the exported deduplicateOrders on its own
Begin(c, inp) ==
  IF inp.op = "deduplicateOrders" THEN DedupeBegin(c, inp) ELSE PlaceBegin(c, inp)

Outcomes == {"ok", "unknown", "error"}

\* a deduplicateOrders without catch and finally: an error of cancelOrders leaves it
DedupeStep_NoFinally(c, outcome) ==
  LET inp == calls[c].inp
      key == LockKeyOf(inp)
  IN /\ calls[c].pc = "dedupe"
     /\ ~MicrotaskPending
     /\ IF outcome = "ok"
          THEN /\ lastLog' = Log("order", "dedupe", key)
               /\ SetLockState(unlockOperating(LockState, key))
               /\ holder' = [holder EXCEPT ![key] = NoClass]
               /\ IF inp.op = "deduplicateOrders"
                    THEN Return(c, inp, calls[c].sent, "void", NoClass)
                    ELSE InProgress(c, inp, "resume", calls[c].sent)
          ELSE /\ lastLog' = NoLog
               /\ UNCHANGED lockVars
               /\ Return(c, inp, calls[c].sent, "thrown", NoClass)

\* order-coordinator.ts:112-122  cancelOrders has answered: log, then finally unlock
DedupeStep(c, outcome) ==
  LET inp == calls[c].inp
      key == LockKeyOf(inp)
  IN /\ calls[c].pc = "dedupe"
     /\ ~MicrotaskPending
     /\ lastLog' = CASE outcome = "ok" -> Log("order", "dedupe", key)
                     [] outcome = "unknown" -> Log("order", "dedupe-gone", key)
                     [] OTHER -> Log("error", "dedupe-failed", key)
     /\ SetLockState(unlockOperating(LockState, key))
     /\ holder' = [holder EXCEPT ![key] = NoClass]
     /\ IF inp.op = "deduplicateOrders"
          THEN Return(c, inp, calls[c].sent, "void", NoClass)
          ELSE InProgress(c, inp, "resume", calls[c].sent)

DedupeResponse(c, outcome) ==
  /\ DedupeStep(c, outcome)
  /\ UNCHANGED nonCoordVars

\* order-coordinator.ts:164-166  the continuation after await deduplicateOrders
Resume(c) ==
  /\ calls[c].pc = "resume"
  /\ ~SyncRunning
  /\ LockAndSubmit(c, calls[c].inp, calls[c].sent)
  /\ lastLog' = NoLog
  /\ UNCHANGED nonCoordVars

\* order-coordinator.ts:166-177  createOrder has answered, with order `id` when it is ok
SubmitStep(c, outcome, id) ==
  LET inp == calls[c].inp
      key == LockKeyOf(inp)
  IN /\ calls[c].pc = "submit"
     /\ ~MicrotaskPending
     /\ IF outcome = "ok"
          THEN /\ pendings' = [pendings EXCEPT ![key] = ToString(id)]
               /\ lastLog' = Log(IF inp.op = "placeStopLossOrder" THEN "stop"
                                  ELSE IF inp.op = "marketClose" THEN "close"
                                  ELSE "order", "placed", key)
               /\ Return(c, inp, calls[c].sent, "order", NoClass)
               /\ UNCHANGED <<locks, timers, holder>>
          ELSE /\ SetLockState(unlockOperating(LockState, key))
               /\ holder' = [holder EXCEPT ![key] = NoClass]
               /\ lastLog' = IF outcome = "unknown"
                               THEN Log("order", "gone", key) ELSE NoLog
               /\ Return(c, inp, calls[c].sent,
                         IF outcome = "unknown" THEN "undefined" ELSE "thrown", NoClass)

SubmitResponse(c, outcome) ==
  /\ SubmitStep(c, outcome, OrderIdOf(c))
  /\ UNCHANGED nonCoordVars

\* order-coordinator.ts:61-65  the expiry timer of a key fires
TimerExpire(type) ==
  /\ timers[type] = "armed"
  /\ ~MicrotaskPending
  /\ SetLockState(timeoutCallback(LockState, type))
  /\ holder' = [holder EXCEPT ![type] = NoClass]
  /\ lastLog' = Log("info", "timeout", type)
  /\ lastReturn' = NoReturn
  /\ UNCHANGED calls
  /\ UNCHANGED nonCoordVars

\* session-volume.ts:364-374  syncLocksWithOrders(orders): `live` are the ids the
\* pushed list holds with status NEW or PARTIALLY_FILLED
syncLocksWithOrders(L, live) ==
  [locks |-> [k \in LockKeys |->
                IF L.pendings[k] # NULL /\ L.pendings[k] \notin live THEN FALSE
                ELSE L.locks[k]],
   timers |-> [k \in LockKeys |->
                IF L.pendings[k] # NULL /\ L.pendings[k] \notin live THEN NULL
                ELSE L.timers[k]],
   pendings |-> [k \in LockKeys |->
                IF L.pendings[k] # NULL /\ L.pendings[k] \notin live THEN NULL
                ELSE L.pendings[k]]]

PendingIds == {pendings[k] : k \in LockKeys} \ {NULL}

\* session-volume.ts:256  the order-feed handler calls syncLocksWithOrders first
OrderFeedLocks(live) ==
  /\ SetLockState(syncLocksWithOrders(LockState, live))
  /\ holder' = [k \in LockKeys |->
                  IF pendings[k] # NULL /\ pendings[k] \notin live THEN NoClass
                  ELSE holder[k]]
  /\ lastReturn' = NoReturn
  /\ lastLog' = NoLog
  /\ UNCHANGED calls

\* an order-feed push reaches syncLocksWithOrders
OrderFeedSync(live) ==
  /\ ~MicrotaskPending
  /\ PendingIds # {}
  /\ OrderFeedLocks(live)
  /\ UNCHANGED nonCoordVars

\* any push: each pending id is present and live in it, or not
OrderFeed == \E live \in SUBSET PendingIds : OrderFeedSync(live)

(***************************************************************************)
(* Inputs of the coordinator specification                                 *)
(***************************************************************************)
Order(id, type, side, stopPrice, updateTime, time) ==
  [orderId |-> id, type |-> type, side |-> side, stopPrice |-> stopPrice,
   updateTime |-> updateTime, time |-> time]

NoOrders == <<>>

TwoBuyLimits == <<Order(1, "LIMIT", "BUY", 0, 5, 5), Order(2, "LIMIT", "BUY", 0, 7, 7)>>

Place(op, side, reduceOnly, skipDedupe, guard, oo) ==
  [NoInput EXCEPT !.op = op, !.side = side, !.reduceOnly = reduceOnly,
                  !.skipDedupe = skipDedupe, !.guard = guard, !.oo = oo, !.amount = 100000]

\* a call of placeStopLossOrder for the given trigger, with lastPrice known
PlaceStop(side, stopPrice, lastPrice, guard, oo) ==
  [Place("placeStopLossOrder", side, TRUE, FALSE, guard, oo)
     EXCEPT !.stopPrice = stopPrice, !.lastPrice = lastPrice]

CoordInputs ==
  { Place("placeOrder", "BUY", FALSE, FALSE, "inBand", NoOrders),
    Place("placeOrder", "SELL", TRUE, FALSE, "inBand", NoOrders),
    Place("placeOrder", "BUY", FALSE, FALSE, "absent", TwoBuyLimits),
    Place("placeOrder", "BUY", FALSE, TRUE, "noMaxPct", NoOrders),
    Place("placeOrder", "SELL", FALSE, FALSE, "outOfBand", NoOrders),
    [Place("marketClose", "SELL", TRUE, FALSE, "inBand", NoOrders)
       EXCEPT !.expectedPrice = 2000],
    PlaceStop("SELL", 1980, 2001, "inBand", NoOrders),
    PlaceStop("BUY", 1980, 2001, "absent", NoOrders),
    PlaceStop("BUY", 2003, 2002, "absent", NoOrders) }

CoordInit ==
  /\ locks = [k \in LockKeys |-> FALSE]
  /\ timers = [k \in LockKeys |-> NULL]
  /\ pendings = [k \in LockKeys |-> NULL]
  /\ holder = [k \in LockKeys |-> NoClass]
  /\ calls = [c \in CallIds |-> IdleCall]
  /\ lastReturn = NoReturn
  /\ lastLog = NoLog

CoordIdle == CoordInit

\* a placement operation is called
StartCall(c) ==
  /\ calls[c].pc = "idle"
  /\ \E inp \in CoordInputs : Begin(c, inp)
  /\ UNCHANGED nonCoordVars

(***************************************************************************)
(* placeAtomicDualWithStops                                                *)
(* Quantities are in units of 1e-5, prices and the loss limit in units of  *)
(* 0.05, so that a loss of 20 on a quantity of 100000 moves the price by   *)
(* 20.                                                                     *)
(***************************************************************************)
\* order-coordinator.ts:384-400, 461-478  the two entries, the same in both paths
EntryParams(inp, side) ==
  LET leg == IF side = "BUY" THEN inp.buy ELSE inp.sell
  IN Params(side, "LIMIT", roundQtyDownToStep(leg.amount, inp.qtyStep), Number(leg.price),
            Absent, "absent", "absent", "GTX", "absent")

\* order-coordinator.ts:405-409, 423-427 (and 485-490, 499-504)
StopPriceOf(inp, direction) ==
  LET leg == IF direction = "long" THEN inp.buy ELSE inp.sell
  IN roundDownToTick(
       calcStopLossPrice(Number(leg.price), roundQtyDownToStep(leg.amount, inp.qtyStep),
                         direction, inp.lossLimitUsd),
       inp.priceTick)

\* order-coordinator.ts:384-442  paramsList
BulkParams(inp) ==
  <<EntryParams(inp, "BUY"), EntryParams(inp, "SELL")>> \o
  IF inp.attachStops
    THEN << Params("SELL", "STOP_MARKET", roundQtyDownToStep(inp.buy.amount, inp.qtyStep),
                   Absent, StopPriceOf(inp, "long"), "true", "true", "GTC", "STOP_LOSS"),
            Params("BUY", "STOP_MARKET", roundQtyDownToStep(inp.sell.amount, inp.qtyStep),
                   Absent, StopPriceOf(inp, "short"), "true", "true", "GTC", "TAKE_PROFIT") >>
    ELSE <<>>

\* order-coordinator.ts:460-515  the createOrder calls of the sequential path
SeqParams(inp) ==
  <<EntryParams(inp, "BUY"), EntryParams(inp, "SELL")>> \o
  IF inp.attachStops
    THEN << Params("SELL", "STOP_MARKET", roundQtyDownToStep(inp.buy.amount, inp.qtyStep),
                   Absent, StopPriceOf(inp, "long"), "true", "true", "GTC", "STOP_LOSS"),
            Params("BUY", "STOP_MARKET", roundQtyDownToStep(inp.sell.amount, inp.qtyStep),
                   Absent, StopPriceOf(inp, "short"), "true", "true", "GTC", "STOP_LOSS") >>
    ELSE <<>>

\* the venue creates the n-th order of the call from the parameters it is sent
VenueOrder(n, params) == [orderId |-> 10 + n, params |-> params]

VenueOrders(list) == [n \in DOMAIN list |-> VenueOrder(n, list[n])]

NoDualInput ==
  [buy |-> [price |-> "100", amount |-> 0], sell |-> [price |-> "100", amount |-> 0],
   attachStops |-> FALSE, hasBulk |-> FALSE, guard |-> "absent",
   lossLimitUsd |-> 0, priceTick |-> 2, qtyStep |-> 1]

NoDual == [pc |-> "idle", inp |-> NoDualInput, sent |-> <<>>, venue |-> <<>>,
           placed |-> <<>>, result |-> "none", reported |-> <<>>]

DualIdle == dual = NoDual

DualReturn(result, reported) ==
  dual' = [dual EXCEPT !.pc = "returned", !.result = result, !.reported = reported]

\* order-coordinator.ts:461, 470, 481, 495  the next createOrder of the sequential path
DualSendNext ==
  LET k == Len(dual.venue) + 1
  IN [kind |-> "createOrder", params |-> SeqParams(dual.inp)[k]]

\* order-coordinator.ts:369-378  up to the await of the first deduplicateOrders, which
\* finds no duplicates in the empty openOrders of these calls; the guard of the input
\* says which leg isOrderPriceAllowedByMark refuses (374-375)
DualStart ==
  /\ dual.pc = "called"
  /\ lastReturn' = NoReturn
  /\ IF isOperating(LockState, "LIMIT")
       THEN DualReturn("locked", <<>>) /\ lastLog' = NoLog
     ELSE IF dual.inp.guard \in {"outOfBand", "buyOutOfBand", "sellOutOfBand"}
       THEN DualReturn("guard", <<>>) /\ lastLog' = Log("info", "guard", "LIMIT")
     ELSE dual' = [dual EXCEPT !.pc = "resume"] /\ lastLog' = NoLog
  /\ UNCHANGED <<lockVars, calls, planVars, otherVars, engVars>>

\* order-coordinator.ts:381-446, 460-461  lock, build paramsList, send the first request
DualResume ==
  /\ dual.pc = "resume"
  /\ SetLockState(lockOperating(LockState, "LIMIT"))
  /\ holder' = [holder EXCEPT !["LIMIT"] = [op |-> "placeAtomicDualWithStops",
                                            side |-> "BUY", reduceOnly |-> FALSE]]
  /\ IF dual.inp.hasBulk
       THEN dual' = [dual EXCEPT !.pc = "bulk",
                       !.sent = <<[kind |-> "createBulkOrders", list |-> BulkParams(dual.inp)]>>]
       ELSE dual' = [dual EXCEPT !.pc = "seq", !.sent = <<DualSendNext>>]
  /\ lastLog' = NoLog
  /\ lastReturn' = NoReturn
  /\ UNCHANGED <<calls, planVars, otherVars, engVars>>

\* order-coordinator.ts:446-457  createBulkOrders has answered
DualBulkResponse(outcome) ==
  /\ dual.pc = "bulk"
  /\ ~MicrotaskPending
  /\ IF outcome = "ok"
       THEN LET created == VenueOrders(dual.sent[1].list)
            IN /\ dual' = [dual EXCEPT !.pc = "returned", !.venue = created,
                             !.result = "orders", !.reported = created]
               /\ pendings' = [pendings EXCEPT !["LIMIT"] = ToString(created[1].orderId)]
               /\ lastLog' = Log("order", "atomic", "LIMIT")
       ELSE /\ dual' = [dual EXCEPT !.pc = "seq", !.sent = Append(dual.sent, DualSendNext)]
            /\ lastLog' = Log("warn", "fallback", "LIMIT")
            /\ UNCHANGED pendings
  /\ lastReturn' = NoReturn
  /\ UNCHANGED <<locks, timers, holder, calls, planVars, otherVars, engVars>>

\* order-coordinator.ts:461-523  a createOrder of the sequential path has answered
DualSeqResponse(outcome) ==
  LET k == Len(dual.venue) + 1
      order == VenueOrder(k, SeqParams(dual.inp)[k])
      acked == Append(dual.venue, order)
      placed == IF k <= 2 THEN Append(dual.placed, order) ELSE dual.placed
  IN /\ dual.pc = "seq"
     /\ ~MicrotaskPending
     /\ IF outcome = "ok"
          THEN IF k < Len(SeqParams(dual.inp))
                 THEN /\ dual' = [dual EXCEPT !.venue = acked, !.placed = placed,
                                    !.sent = Append(dual.sent,
                                               [kind |-> "createOrder",
                                                params |-> SeqParams(dual.inp)[k + 1]])]
                      /\ lastLog' = NoLog
                      /\ UNCHANGED lockVars
                 ELSE /\ dual' = [dual EXCEPT !.pc = "returned", !.venue = acked,
                                    !.placed = placed, !.result = "orders",
                                    !.reported = placed]
                      /\ pendings' = [pendings EXCEPT
                                        !["LIMIT"] = ToString(placed[1].orderId)]
                      /\ lastLog' = Log("order", "sequential", "LIMIT")
                      /\ UNCHANGED <<locks, timers, holder>>
          ELSE /\ SetLockState(unlockOperating(LockState, "LIMIT"))
               /\ holder' = [holder EXCEPT !["LIMIT"] = NoClass]
               /\ lastLog' = IF outcome = "unknown"
                               THEN Log("order", "gone", "LIMIT") ELSE NoLog
               /\ DualReturn(IF outcome = "unknown" THEN "undefined" ELSE "thrown", <<>>)
     /\ lastReturn' = NoReturn
     /\ UNCHANGED <<calls, planVars, otherVars, engVars>>

(***************************************************************************)
(* Inputs of the plan specification                                        *)
(***************************************************************************)
MaxPlanLen == 2

PlanOrders ==
  { [side |-> "BUY",  reduceOnly |-> FALSE, price |-> "100.05"],
    [side |-> "BUY",  reduceOnly |-> FALSE, price |-> "100.15"],
    [side |-> "BUY",  reduceOnly |-> FALSE, price |-> "100"],
    [side |-> "BUY",  reduceOnly |-> TRUE,  price |-> "100.0"],
    [side |-> "SELL", reduceOnly |-> FALSE, price |-> "100.0"],
    [side |-> "BUY",  reduceOnly |-> FALSE, price |-> "abc"] }

PlanTargets ==
  { [side |-> "BUY",  reduceOnly |-> FALSE, price |-> "100.1", amount |-> 100000],
    [side |-> "BUY",  reduceOnly |-> FALSE, price |-> "100.0", amount |-> 100000],
    [side |-> "BUY",  reduceOnly |-> TRUE,  price |-> "100.0", amount |-> 2],
    [side |-> "SELL", reduceOnly |-> FALSE, price |-> "100.3", amount |-> 100000],
    [side |-> "SELL", reduceOnly |-> FALSE, price |-> "100.3", amount |-> 1],
    [side |-> "BUY",  reduceOnly |-> FALSE, price |-> "abc",   amount |-> 0] }

PlanTolerances == {0, 1, 2, NaN}

SeqsUpTo(S, n) == UNION {[1..k -> S] : k \in 0..n}

NoPlan == [done |-> FALSE, toCancel |-> <<>>, toPlace |-> <<>>]

\* no call of shouldStopLoss was made
NoStopLoss ==
  [position |-> [positionAmt |-> 0, entryPrice |-> 0], bestBid |-> 0, bestAsk |-> 0,
   lossLimit |-> 0, returned |-> FALSE, result |-> FALSE]

\* grvt-hedge-engine.ts:45  orderCooldownMs = 5000, in units of 2.5 s
Cooldown == 2

\* the feed callbacks whose handler may await the venue at the same time
MaxHandlers == 2

\* the calls of subscribeToEvents, each of which registers one callback per feed
MaxSubscriptions == 2

\* a handler that awaits nothing; position is the argument of placeStopLossOrder
IdleHandler ==
  [pc |-> "idle", sent |-> <<>>, position |-> [positionAmt |-> 0, entryPrice |-> 0]]

\* a snapshot the feed has not delivered
NoSnapshot == [null |-> TRUE]

\* grvt-hedge-engine.ts:38-49  the fields after construction; the ticker, which its
\* callback only stores and hands to the snapshot (101-104), is left out.  sinceOrder is
\* min(Date.now() - lastOrderTime, Cooldown): lastOrderTime starts at 0, far in the past.
\* handlers is the bag of the handlers that await the venue.  subscriptions counts the
\* callbacks that subscribeToEvents (77-105) has registered with each feed.
\* sinceSubmit and lastGap observe the venue: the time since the last createOrder call
\* and the time between the last two, both capped at Cooldown
NoHedge ==
  [running |-> FALSE, subscriptions |-> 0, accountSnapshot |-> NoSnapshot,
   depthSnapshot |-> NoSnapshot, openOrders |-> {},
   lastError |-> NULL, ready |-> FALSE, sinceOrder |-> Cooldown,
   handlers |-> EmptyBag,
   sinceSubmit |-> Cooldown, lastGap |-> Cooldown]

HedgeIdle == hedge = NoHedge

OtherIdle == stopLoss = NoStopLoss /\ HedgeIdle

PlanIdle == planIn = [O |-> <<>>, D |-> <<>>, tol |-> 0] /\ planOut = NoPlan

PlanInit ==
  /\ planIn \in [O : SeqsUpTo(PlanOrders, MaxPlanLen),
                 D : SeqsUpTo(PlanTargets, MaxPlanLen),
                 tol : PlanTolerances]
  /\ planOut = NoPlan
  /\ OtherIdle
  /\ CoordIdle
  /\ DualIdle
  /\ EngIdle

\* one call of makeOrderPlan
Plan ==
  /\ planOut = NoPlan
  /\ planOut' = makeOrderPlan(planIn.O, planIn.D, planIn.tol)
  /\ UNCHANGED planIn
  /\ UNCHANGED <<coordVars, dual, engVars, otherVars>>

PlanNext == Plan

SpecPlan == PlanInit /\ [][PlanNext]_vars

(***************************************************************************)
(* The specification of placeAtomicDualWithStops                           *)
(***************************************************************************)
MaxAmount == 2

DualInputs ==
  [buy : [price : {"100", "100.05"}, amount : {100000 * a : a \in 1..MaxAmount}],
   sell : [price : {"100.3"}, amount : {100000 * a + 50 : a \in 1..MaxAmount}],
   attachStops : BOOLEAN, hasBulk : BOOLEAN, guard : {"inBand", "outOfBand"},
   lossLimitUsd : {20}, priceTick : {2}, qtyStep : {100, 100000}]

DualInit ==
  /\ CoordInit
  /\ PlanIdle /\ OtherIdle
  /\ EngIdle
  /\ \E inp \in DualInputs : dual = [NoDual EXCEPT !.pc = "called", !.inp = inp]

DualNext ==
  \/ DualStart
  \/ DualResume
  \/ \E outcome \in Outcomes : DualBulkResponse(outcome)
  \/ \E outcome \in Outcomes : DualSeqResponse(outcome)
  \/ \E k \in LockKeys : TimerExpire(k)

SpecDual == DualInit /\ [][DualNext]_vars

(***************************************************************************)
(* The coordinator specification                                           *)
(***************************************************************************)
Init == CoordInit /\ PlanIdle /\ OtherIdle /\ DualIdle /\ EngIdle

Next ==
  \/ \E c \in CallIds : StartCall(c)
  \/ \E c \in CallIds : Resume(c)
  \/ \E c \in CallIds, outcome \in Outcomes : DedupeResponse(c, outcome)
  \/ \E c \in CallIds, outcome \in Outcomes : SubmitResponse(c, outcome)
  \/ \E k \in LockKeys : TimerExpire(k)
  \/ OrderFeed

Spec == Init /\ [][Next]_vars

\* the event loop runs every queued continuation, and then the timers that are due:
\* an armed timer fires at its deadline, whatever else keeps arriving
Fairness ==
  /\ \A c \in CallIds : WF_vars(Resume(c))
  /\ \A k \in LockKeys : SF_vars(TimerExpire(k))

\* the operations that reach every way a key gets locked: after the await of an
\* empty dedupe, by the dedupe itself, and under a second key
LockInputs ==
  { Place("placeOrder", "BUY", FALSE, FALSE, "inBand", NoOrders),
    Place("placeOrder", "BUY", FALSE, FALSE, "absent", TwoBuyLimits),
    PlaceStop("SELL", 1980, 2001, "inBand", NoOrders) }

StartLockCall(c) ==
  /\ calls[c].pc = "idle"
  /\ \E inp \in LockInputs : Begin(c, inp)
  /\ UNCHANGED nonCoordVars

NextLive ==
  \/ \E c \in CallIds : StartLockCall(c)
  \/ \E c \in CallIds : Resume(c)
  \/ \E c \in CallIds, outcome \in Outcomes : DedupeResponse(c, outcome)
  \/ \E c \in CallIds, outcome \in Outcomes : SubmitResponse(c, outcome)
  \/ \E k \in LockKeys : TimerExpire(k)
  \/ OrderFeed

SpecLive == Init /\ [][NextLive]_vars /\ Fairness

(***************************************************************************)
(* The specification of marketClose, placeMarketOrder and a reduce-only    *)
(* placeOrder, for each way the guard supplies a price and for a quantity  *)
(* below one step                                                          *)
(***************************************************************************)
\* a quantity of half a step
SubStep == QtyStep \div 2

\* a call of marketClose or placeMarketOrder with the prices of its guard
Close(op, reduceOnly, guard, expected, mark, amount) ==
  [Place(op, "SELL", reduceOnly, FALSE, guard, NoOrders)
     EXCEPT !.expectedPrice = expected, !.markPrice = mark, !.amount = amount]

CloseInputs ==
  { Close("marketClose", TRUE, "inBand", 2000, 2001, 100000),
    Close("marketClose", TRUE, "inBand", Absent, 2001, 100000),
    Close("marketClose", TRUE, "absent", Absent, Absent, 100000),
    Close("marketClose", TRUE, "absent", NaN, 2001, 100000),
    Close("marketClose", TRUE, "inBand", 2000, 2001, SubStep),
    Close("placeMarketOrder", FALSE, "inBand", 2000, 2001, 100000),
    [Place("placeOrder", "SELL", TRUE, FALSE, "inBand", NoOrders) EXCEPT !.amount = SubStep] }

StartClose(c) ==
  /\ calls[c].pc = "idle"
  /\ \E inp \in CloseInputs : Begin(c, inp)
  /\ UNCHANGED nonCoordVars

CloseNext ==
  \/ \E c \in CallIds : StartClose(c)
  \/ \E c \in CallIds : Resume(c)
  \/ \E c \in CallIds, outcome \in Outcomes : SubmitResponse(c, outcome)
  \/ \E k \in LockKeys : TimerExpire(k)
  \/ OrderFeed

SpecClose == Init /\ [][CloseNext]_vars

(***************************************************************************)
(* The specification of the opening checks: every placement operation,     *)
(* inside and outside the mark-price band, beside one                      *)
(* placeAtomicDualWithStops, so that calls meet keys that are locked       *)
(***************************************************************************)
\* a call of placeTrailingStopOrder with its activation price
PlaceTrailing(side, activationPrice, guard) ==
  [Place("placeTrailingStopOrder", side, TRUE, FALSE, guard, NoOrders)
     EXCEPT !.stopPrice = activationPrice]

EntryInputs ==
  UNION { { Place("placeOrder", "BUY", FALSE, FALSE, guard, TwoBuyLimits),
            Close("placeMarketOrder", FALSE, guard, 2000, 2001, 100000),
            Close("marketClose", TRUE, guard, 2000, 2001, 100000),
            PlaceStop("SELL", 1980, 2001, guard, NoOrders),
            PlaceTrailing("SELL", 2010, guard) } : guard \in {"inBand", "outOfBand"} }

EntryDualInputs ==
  [buy : [price : {"100"}, amount : {100000}],
   sell : [price : {"100.3"}, amount : {100000}],
   attachStops : {FALSE}, hasBulk : {TRUE},
   guard : {"inBand", "buyOutOfBand", "sellOutOfBand"},
   lossLimitUsd : {20}, priceTick : {2}, qtyStep : {100}]

EntryInit ==
  /\ CoordInit
  /\ PlanIdle /\ OtherIdle
  /\ EngIdle
  /\ \E inp \in EntryDualInputs : dual = [NoDual EXCEPT !.pc = "called", !.inp = inp]

\* one operation at a time is called beside the atomic one: its key is locked by
\* the atomic call in flight, or by the order an earlier call left pending
StartEntry ==
  /\ calls[1].pc = "idle"
  /\ \E inp \in EntryInputs : Begin(1, inp)
  /\ UNCHANGED nonCoordVars

EntryNext ==
  \/ StartEntry
  \/ \E c \in CallIds : Resume(c)
  \/ \E c \in CallIds, outcome \in Outcomes : DedupeResponse(c, outcome)
  \/ \E c \in CallIds, outcome \in Outcomes : SubmitResponse(c, outcome)
  \/ DualStart
  \/ DualResume
  \/ \E outcome \in Outcomes : DualBulkResponse(outcome)
  \/ \E outcome \in Outcomes : DualSeqResponse(outcome)
  \/ \E k \in LockKeys : TimerExpire(k)
  \/ OrderFeed

SpecEntry == EntryInit /\ [][EntryNext]_vars

(***************************************************************************)
(* The specification of deduplicateOrders called on its own                *)
(***************************************************************************)
MaxOrders == 3

\* open orders as the venue reports them: lower-case type, a LIMIT order that
\* carries a stopPrice, an updateTime of 0 beside a time, two equal updateTimes
DedupeOrders ==
  { Order(1, "LIMIT", "BUY", 0, 5, 5),
    Order(2, "LIMIT", "BUY", 0, 7, 4),
    Order(3, "limit", "BUY", 0, 0, 9),
    Order(4, "LIMIT", "SELL", 0, 8, 8),
    Order(5, "STOP_MARKET", "SELL", 1990, 3, 3),
    Order(6, "LIMIT", "SELL", 1980, 8, 8) }

DistinctIds(s) == \A i, j \in DOMAIN s : i # j => s[i].orderId # s[j].orderId

DedupeInputs ==
  { [NoInput EXCEPT !.op = "deduplicateOrders", !.side = side, !.oo = oo, !.type = type] :
      side \in Sides, type \in {"LIMIT", "STOP_MARKET"},
      oo \in {s \in SeqsUpTo(DedupeOrders, MaxOrders) : DistinctIds(s)} }

\* the lock maps handed to deduplicateOrders: empty, or with one key held by a
\* placement whose order is pending
DedupeInit ==
  /\ \E held \in SUBSET {"LIMIT"} :
       /\ locks = [k \in LockKeys |-> k \in held]
       /\ timers = [k \in LockKeys |-> IF k \in held THEN "armed" ELSE NULL]
       /\ pendings = [k \in LockKeys |-> IF k \in held THEN "101" ELSE NULL]
       /\ holder = [k \in LockKeys |->
                      IF k \in held
                        THEN ClassOf(Place("placeOrder", "BUY", FALSE, FALSE, "absent", NoOrders))
                        ELSE NoClass]
  /\ \E inp \in DedupeInputs :
       calls = [c \in CallIds |->
                  IF c = 1 THEN [inp |-> inp, pc |-> "called", sent |-> <<>>] ELSE IdleCall]
  /\ lastReturn = NoReturn
  /\ lastLog = NoLog
  /\ PlanIdle /\ OtherIdle
  /\ DualIdle
  /\ EngIdle

\* the call of deduplicateOrders runs up to its await, or to its return
StartDedupe ==
  /\ calls[1].pc = "called"
  /\ Begin(1, calls[1].inp)
  /\ UNCHANGED nonCoordVars

DedupeNext ==
  \/ StartDedupe
  \/ \E c \in CallIds, outcome \in Outcomes : DedupeResponse(c, outcome)
  \/ \E k \in LockKeys : TimerExpire(k)

SpecDedupe == DedupeInit /\ [][DedupeNext]_vars

(***************************************************************************)
(* VolumeMakerEngine: one reconciliation tick                              *)
(* The engine is running: its feeds are ready and the startup reset of the *)
(* orders is done. The position is open.                                   *)
(***************************************************************************)
\* session-volume.ts:636  this.config.lossLimit, in units of 0.05
LossLimit == 11

\* session-volume.ts:465  this.config.tradeAmount, one coin
TradeAmount == 100000

\* utils/math formatPriceToString(price, 1): the price with one decimal
formatPriceToString(price) ==
  CASE price = 1996 -> "99.8"
    [] price = 1998 -> "99.9"
    [] price = 2000 -> "100.0"
    [] price = 2002 -> "100.1"
    [] price = 2004 -> "100.2"
    [] price = 2006 -> "100.3"
    [] price = 2008 -> "100.4"
    [] OTHER -> "0"

\* an order as the venue reports it; its times grow with its id
VenueOrderOf(id, params) ==
  [orderId |-> id, type |-> params.type, side |-> params.side,
   price |-> IF params.price = Absent THEN "0" ELSE formatPriceToString(params.price),
   stopPrice |-> IF params.stopPrice = Absent THEN 0 ELSE params.stopPrice,
   reduceOnly |-> params.reduceOnly = "true", updateTime |-> id, time |-> id]

\* the venue holds at most one order of each kind, and numbers it by its kind: the
\* closing limit order, the entering limit order, the stop at each of the triggers,
\* and the entering orders of the layers at their prices
OrderIds == 1..8

VenueIdOf(params) ==
  CASE params.type = "STOP_MARKET" /\ params.stopPrice < 1984 -> 3
    [] params.type = "STOP_MARKET" -> 4
    [] params.reduceOnly = "true" -> 1
    [] params.side = "BUY" /\ params.price = 1996 -> 5
    [] params.side = "BUY" /\ params.price = 2000 -> 6
    [] params.side = "SELL" /\ params.price = 2006 -> 7
    [] params.side = "SELL" /\ params.price = 2008 -> 8
    [] OTHER -> 2

VenueIds == {o.orderId : o \in venue}

OpenIds == {eng.openOrders[i].orderId : i \in DOMAIN eng.openOrders}

\* the ids the venue can give to a new order: none that the engine still refers to
FreeIds ==
  {i \in OrderIds :
     /\ i \notin VenueIds \cup OpenIds \cup eng.pendingCancel \cup eng.cancels
     /\ ToString(i) \notin PendingIds}

\* the orders of a set as the list a push carries, in the order of their ids
RECURSIVE OrdersById(_)
OrdersById(S) ==
  IF S = {} THEN <<>>
  ELSE LET o == CHOOSE x \in S : \A y \in S : x.orderId <= y.orderId
       IN <<o>> \o OrdersById(S \ {o})

Without(orders, id) == SelectSeq(orders, LAMBDA o : o.orderId # id)

\* core/lib/rate-limit  beforeCycle(): the decisions it can return
beforeCycle(rate) ==
  IF rate.paused THEN {"paused"}
  ELSE IF rate.failing THEN {"skip", "proceed"}
  ELSE {"proceed"}

\* core/lib/rate-limit  shouldBlockEntries(): paused or backing off
shouldBlockEntries(rate) == rate.paused \/ rate.failing

\* core/lib/rate-limit  registerRateLimit(context)
registerRateLimit(rate) == [paused |-> TRUE, failing |-> TRUE]

\* core/lib/rate-limit  onCycleComplete(hadRateLimit): a clean cycle ends the streak
onCycleComplete(rate, hadRateLimit) ==
  IF hadRateLimit THEN rate ELSE [rate EXCEPT !.failing = FALSE]

Target(side, price, amount, reduceOnly) ==
  [side |-> side, price |-> price, amount |-> amount, reduceOnly |-> reduceOnly]

\* session-volume.ts:125  MAX_ORDERS_PER_SIDE is 5; two layers give two resting
\* orders on a side
MaxOrdersPerSide == 2

\* session-volume.ts:122  MIN_SPREAD_TICKS
MinSpreadTicks == 1

\* session-volume.ts:126  ORDER_SIZE_MULTIPLIER, in tenths
OrderSizeMultiplier == <<10, 8, 6, 4, 2>>

\* session-volume.ts:429-438  the layers from the i-th on: a BUY below the bid and a
\* SELL above the ask for each
RECURSIVE Layers(_, _)
Layers(top, i) ==
  IF i >= MaxOrdersPerSide THEN <<>>
  ELSE LET spreadTicks == MinSpreadTicks + i
           orderSize == (TradeAmount * OrderSizeMultiplier[i + 1]) \div 10
       IN << Target("BUY", formatPriceToString(top.bid - PriceTick * spreadTicks),
                    orderSize, FALSE),
             Target("SELL", formatPriceToString(top.ask + PriceTick * spreadTicks),
                    orderSize, FALSE) >> \o Layers(top, i + 1)

\* session-volume.ts:416-472  the desired orders: the layers while flat, else the
\* closing order of the position and one entering order
DesiredOrders(position, top, canEnter) ==
  LET absPosition == Abs(position.positionAmt)
      hasEntryPrice == position.entryPrice # 0
      direction == IF position.positionAmt > 0 THEN "long" ELSE "short"
      closeSide == IF direction = "long" THEN "SELL" ELSE "BUY"
      minProfitTicks == 2
      closePrice == IF direction = "long"
                      THEN position.entryPrice + PriceTick * minProfitTicks
                      ELSE position.entryPrice - PriceTick * minProfitTicks
      oppositePrice == IF direction = "long" THEN top.bid - PriceTick
                       ELSE top.ask + PriceTick
      oppositeSide == IF direction = "long" THEN "BUY" ELSE "SELL"
  IN IF absPosition < DustEps
       THEN IF canEnter THEN Layers(top, 0) ELSE <<>>
     ELSE IF hasEntryPrice
       THEN <<Target(closeSide, formatPriceToString(closePrice), absPosition, TRUE)>> \o
            (IF canEnter
               THEN <<Target(oppositeSide, formatPriceToString(oppositePrice),
                             TradeAmount, FALSE)>>
               ELSE <<>>)
       ELSE <<Target(closeSide,
                     formatPriceToString(IF closeSide = "SELL" THEN top.bid ELSE top.ask),
                     absPosition, TRUE)>>

\* session-volume.ts:690-693  type.includes("STOP") || type.includes("TAKE_PROFIT") || hasStopPrice
IsTriggerLike(o) ==
  \/ ToUpperCase(o.type) \in {"STOP_MARKET", "TAKE_PROFIT_MARKET", "TRAILING_STOP_MARKET"}
  \/ IsStopLike(o)

\* a readiness test that does not wait for the order feed
isReady_NoOrders(e) ==
  /\ e.feedStatus.account
  /\ e.feedStatus.depth
  /\ e.feedStatus.ticker

\* session-volume.ts:376-383  isReady(): the four feeds have delivered
isReady(e) ==
  /\ e.feedStatus.account
  /\ e.feedStatus.depth
  /\ e.feedStatus.ticker
  /\ e.feedStatus.orders

\* session-volume.ts:491-493  finally: the cycle is reported to the controller; the
\* tick is observed as it ends
Ended(e) ==
  [e EXCEPT !.pc = "idle", !.exit = "end",
            !.rate = onCycleComplete(e.rate, e.hadRateLimit),
            !.awaited = {}, !.toPlace = <<>>, !.toFlush = <<>>, !.flushing = 0,
            !.decision = "none", !.blocked = FALSE, !.hadRateLimit = FALSE,
            !.after = "end", !.risk = NoRisk, !.cancelSent = FALSE,
            !.stopCancelSent = FALSE, !.venueRateLimited = FALSE,
            !.balance = NoBalance,
            !.lastTick = [decision |-> e.decision, blocked |-> e.blocked,
                          position |-> e.position, risk |-> e.risk,
                          cancelSent |-> e.cancelSent, exit |-> e.exit,
                          ready |-> isReady(e), hadRateLimit |-> e.hadRateLimit,
                          stopCancelSent |-> e.stopCancelSent,
                          venueRateLimited |-> e.venueRateLimited,
                          balance |-> e.balance]]

\* a tick that ends and leaves the guard flag set
TickEnd_KeepProcessing(e) == Ended(e)

\* session-volume.ts:491-494  finally: the tick has ended
TickEnd(e) == [Ended(e) EXCEPT !.processing = FALSE]

\* what a step of the engine leaves alone in the coordinator
EngineOnly ==
  /\ lastReturn' = NoReturn
  /\ lastLog' = NoLog
  /\ UNCHANGED <<lockVars, calls, planVars, otherVars, dual>>

\* session-volume.ts:834-847  registerInsufficientBalance: the cooldown starts (again)
registerInsufficientBalance(e) ==
  [e EXCEPT !.cooldown = TRUE, !.insufficientBalanceNotified = TRUE]

\* session-volume.ts:849-857  applyInsufficientBalanceState: once the cooldown is over
\* the recovery is logged and the notice is cleared
applyInsufficientBalanceState(e) ==
  [e EXCEPT !.insufficientBalanceNotified = e.cooldown /\ @,
            !.balance.applied = TRUE,
            !.balance.active = e.cooldown,
            !.balance.recovered = ~e.cooldown /\ e.insufficientBalanceNotified]

\* no best bid or no best ask: getTopPrices gives null
NoTop == [bid |-> NaN, ask |-> NaN]

\* session-volume.ts:409-477, 535-568  the tick past the startup reset: it returns on
\* a missing top of book, else it runs up to the await of the cancellations of
\* syncOrders
Reconcile(e) ==
  LET insufficientActive == e.cooldown
      canEnter == ~shouldBlockEntries(e.rate) /\ ~insufficientActive
      desired == DesiredOrders(e.position, e.top, canEnter)
      availableOrders == SelectSeq(e.openOrders,
                                   LAMBDA o : o.orderId \notin e.pendingCancel)
      plan == makeOrderPlan(availableOrders, desired, PriceTick \div 2)
      ids == {plan.toCancel[i].orderId : i \in DOMAIN plan.toCancel}
  IN IF e.top.bid = NaN \/ e.top.ask = NaN THEN TickEnd([e EXCEPT !.exit = "noTop"])
     ELSE [applyInsufficientBalanceState(e)
             EXCEPT !.pc = IF ids = {} THEN "placing" ELSE "cancels",
                    !.balance.closeDesired = \E i \in DOMAIN desired : desired[i].reduceOnly,
                    !.balance.entryDesired = \E i \in DOMAIN desired : ~desired[i].reduceOnly,
                    !.pendingCancel = @ \cup ids,
                    !.cancels = @ \cup ids,
                    !.awaited = ids,
                    !.toPlace = plan.toPlace,
                    !.cancelSent = ids # {},
                    !.stopCancelSent = \E i \in DOMAIN plan.toCancel :
                                         IsTriggerLike(plan.toCancel[i])]

\* a tick that goes on to syncOrders without the startup reset
StartupReset_NoReset(e) == Reconcile(e)

\* session-volume.ts:403-407, 506-513  ensureStartupOrderReset up to its await of
\* cancelAllOrders, or its return
StartupReset(e) ==
  IF e.initialOrderResetDone THEN Reconcile(e)
  ELSE IF ~e.initialOrderSnapshotReady THEN TickEnd([e EXCEPT !.exit = "resetPending"])
  ELSE IF e.openOrders = <<>> THEN Reconcile([e EXCEPT !.initialOrderResetDone = TRUE])
  ELSE [e EXCEPT !.pc = "reset"]

\* session-volume.ts:385-407  the timer calls tick() while no tick is running: it runs
\* up to its first await of a venue call, or returns when the cycle is paused or
\* skipped or the feeds are not ready
Tick(decision) ==
  LET started == [eng EXCEPT !.processing = TRUE,
                             !.decision = decision,
                             !.blocked = shouldBlockEntries(eng.rate),
                             !.balance.cooling = eng.cooldown,
                             !.lastTick = NoTick]
  IN /\ ~eng.processing
     /\ ~MicrotaskPending
     /\ decision \in beforeCycle(eng.rate)
     /\ eng' = IF decision # "proceed" THEN TickEnd([started EXCEPT !.exit = decision])
               ELSE IF ~isReady(started) THEN TickEnd([started EXCEPT !.exit = "notReady"])
               ELSE StartupReset(started)
     /\ UNCHANGED venue
     /\ EngineOnly

\* session-volume.ts:386  the timer calls tick() while a tick is suspended at an await:
\* it returns at once
OverlappingTick ==
  /\ eng.processing
  /\ ~MicrotaskPending
  /\ eng' = [eng EXCEPT !.lastTick = [NoTick EXCEPT !.exit = "busy"]]
  /\ UNCHANGED venue
  /\ EngineOnly

\* session-volume.ts:514-532, 405-407  cancelAllOrders of the startup reset has
\* answered: the reset is done and the tick goes on, or the tick returns
ResetResponse(outcome) ==
  LET done == [eng EXCEPT !.initialOrderResetDone = TRUE, !.openOrders = <<>>,
                          !.lastTick = NoTick]
  IN /\ eng.pc = "reset"
     /\ ~MicrotaskPending
     /\ outcome = "unknown" => venue = {}
     /\ IF outcome = "ok"
          THEN /\ eng' = Reconcile([done EXCEPT !.pendingCancel = {}])
               /\ venue' = {}
               /\ SetLockState(unlockOperating(LockState, "LIMIT"))
               /\ holder' = [holder EXCEPT !["LIMIT"] = NoClass]
               /\ lastLog' = Log("order", "startup-reset", "none")
        ELSE IF outcome = "unknown"
          THEN /\ eng' = Reconcile(done)
               /\ lastLog' = Log("order", "no-orders", "none")
               /\ UNCHANGED <<venue, lockVars>>
          ELSE /\ eng' = TickEnd([eng EXCEPT !.exit = "resetFailed"])
               /\ lastLog' = Log("error", "reset-failed", "none")
               /\ UNCHANGED <<venue, lockVars>>
     /\ lastReturn' = NoReturn
     /\ UNCHANGED <<calls, planVars, otherVars, dual>>

\* session-volume.ts:485-490, 496-504  the catch of tick() on a rate-limit error:
\* registerRateLimit, then enforceRateLimitStop runs checkRisk and the flush
RateLimited(e) ==
  [e EXCEPT !.pc = "risk", !.hadRateLimit = TRUE, !.rate = registerRateLimit(e.rate),
            !.awaited = {}, !.toPlace = <<>>, !.after = "flush"]

\* core/lib/orders safeCancelOrder: the callbacks of session-volume.ts:553-564 after
\* cancelOrder has answered; "unknown order" and other errors drop the order from
\* the local lists, a rate-limit error is thrown to the caller
Cancelled(e, id, outcome) ==
  IF outcome \in {"unknown", "error"}
    THEN [e EXCEPT !.pendingCancel = @ \ {id}, !.openOrders = Without(@, id)]
    ELSE e

\* the venue cancels an order it holds, and does not know an order it does not hold
CanAnswer(id, outcome) ==
  /\ outcome = "ok" => id \in VenueIds
  /\ outcome = "unknown" => id \notin VenueIds

VenueAfterCancel(id, outcome) ==
  IF outcome = "ok" THEN {o \in venue : o.orderId # id} ELSE venue

\* a wait that ends with the first cancellation that settles
AllSettled_Any(e) == TRUE

\* session-volume.ts:568  await Promise.all(cancelPromises): every promise has fulfilled
AllSettled(e) == e.awaited = {}

\* session-volume.ts:547-568  a cancelOrder of syncOrders has answered; when it was the
\* last one awaited, syncOrders goes on to the placements
CancelResponse(id, outcome) ==
  LET e == [Cancelled(eng, id, outcome) EXCEPT !.cancels = @ \ {id}, !.awaited = @ \ {id},
                                               !.lastTick = NoTick]
  IN /\ id \in eng.cancels
     /\ ~MicrotaskPending
     /\ CanAnswer(id, outcome)
     /\ eng' = IF eng.pc = "cancels" /\ id \in eng.awaited
                 THEN IF outcome = "rateLimit" THEN RateLimited(e)
                      ELSE IF AllSettled(e) THEN [e EXCEPT !.pc = "placing"]
                      ELSE e
                 ELSE e
     /\ venue' = VenueAfterCancel(id, outcome)
     /\ lastLog' = CASE outcome = "ok" -> Log("order", "cancelled", "none")
                     [] outcome = "error" -> Log("error", "cancel-failed", "none")
                     [] OTHER -> NoLog
     /\ lastReturn' = NoReturn
     /\ UNCHANGED <<lockVars, calls, planVars, otherVars, dual>>

\* the first call slot that is free
FreeSlot == CHOOSE c \in CallIds : calls[c].pc = "idle" /\ \A d \in CallIds : calls[d].pc = "idle" => c <= d

\* session-volume.ts:569-599  the next placeOrder of toPlace.map(...) is called
PlaceNext ==
  LET target == Head(eng.toPlace)
  IN /\ SyncRunning
     /\ \E c \in CallIds : calls[c].pc = "idle"
     /\ Begin(FreeSlot,
              [Place("placeOrder", target.side, target.reduceOnly, FALSE, "inBand",
                     eng.openOrders)
                 EXCEPT !.price = target.price, !.amount = target.amount])
     /\ eng' = [eng EXCEPT !.toPlace = Tail(@),
                           !.balance.entryPlaced = @ \/ ~target.reduceOnly]
     /\ UNCHANGED <<venue, planVars, otherVars, dual>>

\* session-volume.ts:614, 433  Number.isFinite(entryPrice) && Math.abs(entryPrice) > 1e-8
HasEntryPrice(position) == position.entryPrice # 0

\* session-volume.ts:648  Math.round(targetStop / priceTick) * priceTick
RoundToTick(price) == ((2 * price + PriceTick) \div (2 * PriceTick)) * PriceTick

\* session-volume.ts:642-645  the orders that count as the current stop
StopOrders(openOrders, stopSide) ==
  SelectSeq(openOrders,
            LAMBDA o : o.side = stopSide /\ (ToUpperCase(o.type) = "STOP_MARKET" \/ IsStopLike(o)))

\* session-volume.ts:629-654  ensureStopLossOrder up to its decision
StopPlan(position, top, openOrders) ==
  LET absPosition == Abs(position.positionAmt)
      direction == IF position.positionAmt > 0 THEN "long" ELSE "short"
      stopSide == IF direction = "long" THEN "SELL" ELSE "BUY"
      widerLossLimit == LossLimit * 2
      targetStop == calcStopLossPrice(position.entryPrice, absPosition, direction,
                                      widerLossLimit)
      stops == StopOrders(openOrders, stopSide)
      roundedTarget == RoundToTick(targetStop)
      existing == IF stops = <<>> THEN NaN
                  ELSE IF stops[1].stopPrice > 0 THEN stops[1].stopPrice ELSE NaN
      needPlace == stops = <<>>
      needReplace == IsFinite(existing) /\ Abs(existing - roundedTarget) >= PriceTick
  IN [stopSide |-> stopSide, found |-> stops # <<>>,
      stopId |-> IF stops = <<>> THEN 0 ELSE stops[1].orderId,
      existing |-> existing, target |-> roundedTarget,
      lastPrice |-> (top.bid + top.ask) \div 2,
      act |-> needPlace \/ (needReplace /\ stops # <<>>)]

\* session-volume.ts:478-479, 501-503  checkRisk has returned: the tick ends, or the
\* catch goes on to flushNonStopOrders over the orders it then sees
Finish(e) ==
  IF e.after = "flush" THEN [e EXCEPT !.pc = "flush", !.toFlush = e.openOrders]
  ELSE TickEnd(e)

\* session-volume.ts:665-680  the arguments of placeStopLossOrder
StopInput(e) ==
  [PlaceStop(IF e.position.positionAmt > 0 THEN "SELL" ELSE "BUY", e.risk.target,
             e.risk.lastPrice, e.guard, e.openOrders)
     EXCEPT !.amount = Abs(e.position.positionAmt)]

\* session-volume.ts:664-680  placeStopLossOrder is called
StartStop(e) ==
  /\ Begin(FreeSlot, StopInput(e))
  /\ eng' = [e EXCEPT !.pc = "stopPlace", !.risk.called = TRUE]

\* session-volume.ts:611-664  checkRisk and ensureStopLossOrder, up to the await of
\* the cancelOrder of the current stop or of placeStopLossOrder
CheckRisk ==
  LET p == StopPlan(eng.position, eng.top, eng.openOrders)
      checked == [NoRisk EXCEPT !.checked = TRUE]
      risk == [checked EXCEPT !.ran = TRUE, !.stopId = p.stopId, !.existing = p.existing,
                              !.target = p.target, !.lastPrice = p.lastPrice]
  IN /\ eng.pc = "risk" \/ (eng.pc = "placing" /\ eng.toPlace = <<>> /\ AllIdle)
     /\ IF Abs(eng.position.positionAmt) < DustEps
          THEN /\ eng' = Finish(eng)
               /\ lastLog' = NoLog
               /\ lastReturn' = NoReturn
               /\ UNCHANGED <<lockVars, calls>>
        ELSE IF ~HasEntryPrice(eng.position)
          THEN /\ eng' = Finish([eng EXCEPT !.risk = checked,
                                            !.entryPricePendingLogged = TRUE])
               /\ lastLog' = IF eng.entryPricePendingLogged THEN NoLog
                             ELSE Log("info", "entry-pending", "none")
               /\ lastReturn' = NoReturn
               /\ UNCHANGED <<lockVars, calls>>
        ELSE IF ~p.act
          THEN /\ eng' = Finish([eng EXCEPT !.risk = risk,
                                            !.entryPricePendingLogged = FALSE])
               /\ lastLog' = NoLog
               /\ lastReturn' = NoReturn
               /\ UNCHANGED <<lockVars, calls>>
        ELSE IF p.found
          THEN /\ eng' = [eng EXCEPT !.pc = "stopCancel",
                                     !.stopCancelSent = TRUE,
                                     !.risk = [risk EXCEPT !.cancelled = TRUE],
                                     !.entryPricePendingLogged = FALSE]
               /\ lastLog' = NoLog
               /\ lastReturn' = NoReturn
               /\ UNCHANGED <<lockVars, calls>>
        ELSE StartStop([eng EXCEPT !.risk = risk, !.entryPricePendingLogged = FALSE])
     /\ UNCHANGED <<venue, planVars, otherVars, dual>>

\* session-volume.ts:656-680  the cancelOrder of the current stop has answered: whatever
\* the answer, placeStopLossOrder is called
StopCancelResponse(outcome) ==
  /\ eng.pc = "stopCancel"
  /\ ~MicrotaskPending
  /\ CanAnswer(eng.risk.stopId, outcome)
  /\ venue' = VenueAfterCancel(eng.risk.stopId, outcome)
  /\ StartStop(eng)
  /\ UNCHANGED <<planVars, otherVars, dual>>

\* session-volume.ts:681-684  placeStopLossOrder has returned or thrown
AfterStop ==
  /\ eng.pc = "stopPlace"
  /\ AllIdle
  /\ eng' = Finish([eng EXCEPT !.risk.created =
                      \E i \in DOMAIN lastReturn.sent : lastReturn.sent[i].kind = "createOrder"])
  /\ UNCHANGED venue
  /\ EngineOnly

\* session-volume.ts:689-694  the orders the loop passes over
RECURSIVE SkipFlushed(_, _)
SkipFlushed(orders, pendingCancel) ==
  IF orders = <<>> THEN <<>>
  ELSE IF IsTriggerLike(Head(orders)) \/ Head(orders).orderId \in pendingCancel
    THEN SkipFlushed(Tail(orders), pendingCancel)
  ELSE orders

\* session-volume.ts:687-696, 489-494  flushNonStopOrders reaches its next cancelOrder, or
\* its end, after which the tick ends
Flush ==
  LET rest == SkipFlushed(eng.toFlush, eng.pendingCancel)
  IN /\ eng.pc = "flush"
     /\ eng' = IF rest = <<>> THEN TickEnd(eng)
               ELSE [eng EXCEPT !.pc = "flushWait", !.toFlush = Tail(rest),
                                !.flushing = Head(rest).orderId,
                                !.pendingCancel = @ \cup {Head(rest).orderId},
                                !.cancelSent = TRUE]
     /\ UNCHANGED venue
     /\ EngineOnly

\* session-volume.ts:696-710  the cancelOrder of the flush has answered; a rate-limit
\* error leaves the catch of tick() through its finally, and the promise of the tick
\* is rejected
FlushResponse(outcome) ==
  LET e == Cancelled(eng, eng.flushing, outcome)
  IN /\ eng.pc = "flushWait"
     /\ ~MicrotaskPending
     /\ CanAnswer(eng.flushing, outcome)
     /\ eng' = IF outcome = "rateLimit" THEN TickEnd([e EXCEPT !.exit = "rejected"])
               ELSE [e EXCEPT !.pc = "flush", !.flushing = 0]
     /\ venue' = VenueAfterCancel(eng.flushing, outcome)
     /\ lastLog' = IF outcome = "error" THEN Log("error", "cancel-failed", "none") ELSE NoLog
     /\ lastReturn' = NoReturn
     /\ UNCHANGED <<lockVars, calls, planVars, otherVars, dual>>

\* session-volume.ts:575-606, 663-683  the venue has answered a request of placeOrder or
\* placeStopLossOrder of this cycle with a rate-limit error
RateLimitSeen(e, outcome) ==
  IF outcome = "rateLimit" THEN [e EXCEPT !.venueRateLimited = TRUE] ELSE e

\* session-volume.ts:600-606, 681-683  the catch around the call: an insufficient-balance
\* error of placeOrder starts the cooldown, that of placeStopLossOrder is logged only
PlacementAnswered(e, inp, outcome) ==
  IF outcome = "insufficient" /\ inp.op = "placeOrder" THEN registerInsufficientBalance(e)
  ELSE RateLimitSeen(e, outcome)

\* createOrder of a call of the engine has answered; the venue holds the new order
EngSubmitResponse(c, outcome) ==
  /\ outcome = "ok" => VenueIdOf(CreateParams(calls[c].inp)) \in FreeIds
  /\ SubmitStep(c, outcome, VenueIdOf(CreateParams(calls[c].inp)))
  /\ venue' = IF outcome = "ok"
                THEN venue \cup {VenueOrderOf(VenueIdOf(CreateParams(calls[c].inp)),
                                              CreateParams(calls[c].inp))}
                ELSE venue
  /\ eng' = PlacementAnswered(eng, calls[c].inp, outcome)
  /\ UNCHANGED <<planVars, otherVars, dual>>

\* cancelOrders of the dedupe of a call of the engine has answered
EngDedupeResponse(c, outcome) ==
  LET ids == calls[c].sent[1].orderIdList
  IN /\ DedupeStep(c, outcome)
     /\ \A i \in DOMAIN ids : CanAnswer(ids[i], outcome)
     /\ venue' = IF outcome = "ok"
                   THEN {o \in venue : \A i \in DOMAIN ids : o.orderId # ids[i]}
                   ELSE venue
     /\ eng' = RateLimitSeen(eng, outcome)
     /\ UNCHANGED <<planVars, otherVars, dual>>

\* session-volume.ts:255-280  the order feed pushes the open orders of the venue
EngOrderFeed ==
  LET live == {ToString(id) : id \in VenueIds}
  IN /\ ~MicrotaskPending
     /\ \/ eng.openOrders # OrdersById(venue)
        \/ PendingIds \ live # {}
        \/ eng.pendingCancel \ VenueIds # {}
        \/ ~eng.feedStatus.orders
     /\ OrderFeedLocks(live)
     /\ eng' = [eng EXCEPT !.openOrders = OrdersById(venue),
                           !.pendingCancel = @ \cap VenueIds,
                           !.initialOrderSnapshotReady = TRUE,
                           !.feedStatus.orders = TRUE,
                           !.lastTick = NoTick]
     /\ UNCHANGED <<venue, planVars, otherVars, dual>>

\* session-volume.ts:239-253  the account feed pushes a snapshot with another position;
\* here it arrives between two ticks
AccountFeed(position) ==
  /\ eng.pc = "idle"
  /\ ~MicrotaskPending
  /\ position # eng.position \/ ~eng.feedStatus.account
  /\ eng' = [eng EXCEPT !.position = position, !.feedStatus.account = TRUE,
                        !.lastTick = NoTick]
  /\ UNCHANGED venue
  /\ EngineOnly

\* session-volume.ts:288-303  the depth feed pushes a book, with or without a top
DepthFeed(top) ==
  /\ eng.pc = "idle"
  /\ ~MicrotaskPending
  /\ top # eng.top \/ ~eng.feedStatus.depth
  /\ eng' = [eng EXCEPT !.top = top, !.feedStatus.depth = TRUE, !.lastTick = NoTick]
  /\ UNCHANGED venue
  /\ EngineOnly

\* session-volume.ts:306-321  the ticker feed pushes its first snapshot
TickerFeed ==
  /\ ~MicrotaskPending
  /\ ~eng.feedStatus.ticker
  /\ eng' = [eng EXCEPT !.feedStatus.ticker = TRUE, !.lastTick = NoTick]
  /\ UNCHANGED venue
  /\ EngineOnly

\* session-volume.ts:850  the deadline insufficientBalanceCooldownUntil passes
CooldownElapsed ==
  /\ eng.cooldown
  /\ ~MicrotaskPending
  /\ eng' = [eng EXCEPT !.cooldown = FALSE, !.lastTick = NoTick]
  /\ UNCHANGED venue
  /\ EngineOnly

\* core/lib/rate-limit  the deadline pausedUntil passes
PauseElapsed ==
  /\ eng.rate.paused
  /\ ~MicrotaskPending
  /\ eng' = [eng EXCEPT !.rate.paused = FALSE, !.lastTick = NoTick]
  /\ UNCHANGED venue
  /\ EngineOnly

(***************************************************************************)
(* The specification of the engine                                         *)
(***************************************************************************)
\* the engine once its four feeds have delivered and its startup reset is done
Running ==
  [NoEng EXCEPT !.feedStatus = [account |-> TRUE, depth |-> TRUE, ticker |-> TRUE,
                                orders |-> TRUE],
                !.initialOrderSnapshotReady = TRUE, !.initialOrderResetDone = TRUE]

\* long one coin and long two coins, entered at 100.0
Positions == {Position(100000, 2000), Position(200000, 2000)}

EngInit ==
  /\ CoordInit
  /\ PlanIdle /\ OtherIdle
  /\ DualIdle
  /\ venue = {}
  /\ \E p \in Positions : eng = [Running EXCEPT !.position = p]

\* the venue answers a request, or fails it with an error that is not a rate limit
Answers == {"ok", "unknown", "error"}

EngNext ==
  \/ Tick("proceed")
  \/ \E id \in OrderIds, outcome \in Answers : CancelResponse(id, outcome)
  \/ PlaceNext
  \/ \E c \in CallIds : Resume(c)
  \/ \E c \in CallIds, outcome \in Answers : EngSubmitResponse(c, outcome)
  \/ \E c \in CallIds, outcome \in Answers : EngDedupeResponse(c, outcome)
  \/ CheckRisk
  \/ \E outcome \in Answers : StopCancelResponse(outcome)
  \/ AfterStop
  \/ \E k \in LockKeys : TimerExpire(k)
  \/ EngOrderFeed
  \/ \E p \in Positions : AccountFeed(p)

SpecEngine == EngInit /\ [][EngNext]_vars

(***************************************************************************)
(* shouldStopLoss                                                          *)
(***************************************************************************)
\* the function without its check of the closing quote
shouldStopLoss_NoQuoteCheck(position, bestBid, bestAsk, lossLimit) ==
  LET absPosition == Abs(position.positionAmt)
      closePrice == IF position.positionAmt > 0 THEN bestBid ELSE bestAsk
      pnl == IF position.positionAmt > 0
               THEN (closePrice - position.entryPrice) * absPosition
               ELSE (position.entryPrice - closePrice) * absPosition
  IN IF absPosition < DustEps THEN FALSE
     ELSE IF ~IsFinite(position.entryPrice) \/ position.entryPrice = 0 THEN FALSE
     ELSE pnl < 0 - lossLimit

\* utils/pnl.ts:22-46  amounts in units of 1e-5, prices in units of 0.05, the limit in
\* their product; Math.abs(entryPrice) < 1e-8 is entryPrice = 0 in these units, and
\* the product of finite numbers of this size is finite (line 43)
shouldStopLoss(position, bestBid, bestAsk, lossLimit) ==
  LET absPosition == Abs(position.positionAmt)
      closePrice == IF position.positionAmt > 0 THEN bestBid ELSE bestAsk
      pnl == IF position.positionAmt > 0
               THEN (closePrice - position.entryPrice) * absPosition
               ELSE (position.entryPrice - closePrice) * absPosition
  IN IF absPosition < DustEps THEN FALSE
     ELSE IF ~IsFinite(position.entryPrice) \/ position.entryPrice = 0 THEN FALSE
     ELSE IF ~IsFinite(closePrice) \/ closePrice <= 0 THEN FALSE
     ELSE pnl < 0 - lossLimit

\* flat, exactly 1e-5 and one coin, long and short
StopAmounts == {0 - TradeAmount, 0 - 1, 0, 1, TradeAmount}

StopEntries == {NaN, 0, 2000}

\* a quote that is not a number, zero, negative, and quotes around the entry
StopQuotes == {NaN, 0, 0 - 5, 1979, 1980, 1981, 2000, 2019, 2020, 2021}

\* no tolerated loss, and the loss of 20 price units on one coin
StopLimits == {0, 20 * TradeAmount}

StopInit ==
  /\ stopLoss \in [position : [positionAmt : StopAmounts, entryPrice : StopEntries],
                    bestBid : StopQuotes, bestAsk : StopQuotes, lossLimit : StopLimits,
                    returned : {FALSE}, result : {FALSE}]
  /\ HedgeIdle
  /\ PlanIdle
  /\ CoordIdle
  /\ DualIdle
  /\ EngIdle

\* one call of shouldStopLoss
StopLossCall ==
  /\ ~stopLoss.returned
  /\ stopLoss' = [stopLoss EXCEPT !.returned = TRUE, !.result =
                    shouldStopLoss(stopLoss.position, stopLoss.bestBid,
                                   stopLoss.bestAsk, stopLoss.lossLimit)]
  /\ UNCHANGED <<coordVars, planVars, dual, engVars, hedge>>

StopNext == StopLossCall

SpecStopLoss == StopInit /\ [][StopNext]_vars

(***************************************************************************)
(* GrvtHedgeEngine                                                         *)
(***************************************************************************)
\* GrvtHedgeConfig: spreadPct and stopLossPct in tenths of a percent
HedgeConfig ==
  [tradeAmount |-> TradeAmount, spreadPct |-> 1, stopLossPct |-> 2,
   priceTick |-> PriceTick, qtyStep |-> QtyStep]

\* the position getPosition finds in an account snapshot: flat, long, short
HedgePositions ==
  { [positionAmt |-> 0, entryPrice |-> 0],
    [positionAmt |-> TradeAmount, entryPrice |-> 2000],
    [positionAmt |-> 0 - TradeAmount, entryPrice |-> 2000] }

\* depth snapshots: a book whose bid is not a number, and 99.9 / 100.1
HedgeDepths ==
  { [bids |-> <<NaN>>, asks |-> <<2002>>],
    [bids |-> <<1998>>, asks |-> <<2002>>] }

\* the open orders a feed can report: the two limit orders of the pair and a stop
HedgeOrders ==
  { [side |-> "BUY", status |-> "NEW", stopPrice |-> Absent],
    [side |-> "SELL", status |-> "NEW", stopPrice |-> Absent],
    [side |-> "SELL", status |-> "NEW", stopPrice |-> 1996] }

\* the lists the order feed delivers: nothing, the pair, one order of it, the stop
HedgeOrderLists ==
  {O \in SUBSET HedgeOrders :
     Cardinality(O) # 2 \/ \A o \in O : o.stopPrice = Absent}

\* grvt-hedge-engine.ts:135-143
activeBuyOrders(e) ==
  {o \in e.openOrders : o.side = "BUY" /\ o.status = "NEW" /\ o.stopPrice = Absent}

activeSellOrders(e) ==
  {o \in e.openOrders : o.side = "SELL" /\ o.status = "NEW" /\ o.stopPrice = Absent}

activeStopOrders(e) ==
  {o \in e.openOrders : o.stopPrice # Absent /\ o.stopPrice > 0 /\ o.status = "NEW"}

\* grvt-hedge-engine.ts:156-200  the two requests of the pair, none when the book is
\* empty or not a number
placeHedgeOrders(e) ==
  LET depth == e.depthSnapshot
  IN IF Len(depth.bids) = 0 \/ Len(depth.asks) = 0 THEN <<>>
     ELSE IF ~IsFinite(depth.bids[1]) \/ ~IsFinite(depth.asks[1]) THEN <<>>
     ELSE LET midPrice == (depth.bids[1] + depth.asks[1]) \div 2
              buyPrice == roundDownToTick((midPrice * (1000 - HedgeConfig.spreadPct)) \div 1000,
                                          HedgeConfig.priceTick)
              sellPrice == roundDownToTick((midPrice * (1000 + HedgeConfig.spreadPct)) \div 1000,
                                           HedgeConfig.priceTick)
              quantity == roundQtyDownToStep(HedgeConfig.tradeAmount, HedgeConfig.qtyStep)
          IN << Params("BUY", "LIMIT", quantity, Number(formatPriceToString(buyPrice)),
                       Absent, "absent", "absent", "GTX", "absent"),
                Params("SELL", "LIMIT", quantity, Number(formatPriceToString(sellPrice)),
                       Absent, "absent", "absent", "GTX", "absent") >>

\* grvt-hedge-engine.ts:221-248  the request of the stop
placeStopLossOrder(position) ==
  LET isLong == position.positionAmt > 0
      stopSide == IF isLong THEN "SELL" ELSE "BUY"
      stopPrice ==
        IF isLong
          THEN roundDownToTick((position.entryPrice * (1000 - HedgeConfig.stopLossPct)) \div 1000,
                               HedgeConfig.priceTick)
          ELSE roundDownToTick((position.entryPrice * (1000 + HedgeConfig.stopLossPct)) \div 1000,
                               HedgeConfig.priceTick)
      quantity == roundQtyDownToStep(Abs(position.positionAmt), HedgeConfig.qtyStep)
  IN << Params(stopSide, "STOP_MARKET", quantity, Absent,
               Number(formatPriceToString(stopPrice)), "true", "true", "GTC",
               IF stopSide = "SELL" THEN "STOP_LOSS" ELSE "TAKE_PROFIT") >>

\* checkAndPlaceOrders without its second branch
checkAndPlaceOrders_NoStop(e) ==
  IF e.depthSnapshot = NoSnapshot \/ e.accountSnapshot = NoSnapshot THEN IdleHandler
  ELSE IF e.sinceOrder < Cooldown THEN IdleHandler
  ELSE IF /\ e.accountSnapshot.positionAmt = 0
          /\ activeBuyOrders(e) = {} /\ activeSellOrders(e) = {}
         THEN IF placeHedgeOrders(e) = <<>> THEN IdleHandler
              ELSE [IdleHandler EXCEPT !.pc = "hedge", !.sent = placeHedgeOrders(e)]
  ELSE IdleHandler

\* grvt-hedge-engine.ts:125-154  up to the first await: the handler of the callback,
\* idle when it submits nothing.  |positionAmt| against EPS = 1e-8 is a test for zero
\* in units of 1e-5; the position is read once, so that the second branch is not taken
\* after the first
checkAndPlaceOrders(e) ==
  IF e.depthSnapshot = NoSnapshot \/ e.accountSnapshot = NoSnapshot THEN IdleHandler
  ELSE IF e.sinceOrder < Cooldown THEN IdleHandler
  ELSE IF /\ e.accountSnapshot.positionAmt = 0
          /\ activeBuyOrders(e) = {} /\ activeSellOrders(e) = {}
         THEN IF placeHedgeOrders(e) = <<>> THEN IdleHandler
              ELSE [IdleHandler EXCEPT !.pc = "hedge", !.sent = placeHedgeOrders(e)]
  ELSE IF e.accountSnapshot.positionAmt # 0 /\ activeStopOrders(e) = {}
         THEN [pc |-> "stop", sent |-> placeStopLossOrder(e.accountSnapshot),
               position |-> e.accountSnapshot]
  ELSE IdleHandler

\* grvt-hedge-engine.ts:107-123  onAccountUpdate, onOrderUpdate, onDepthUpdate after
\* the callback stored its snapshot: nothing when stopped, else the requests of
\* checkAndPlaceOrders go out and the handler awaits the venue
HandleUpdate(e) ==
  IF ~e.running \/ checkAndPlaceOrders(e).pc = "idle" THEN e
  ELSE [e EXCEPT !.handlers = @ (+) SetToBag({checkAndPlaceOrders(e)}),
                 !.lastGap = e.sinceSubmit, !.sinceSubmit = 0]

\* grvt-hedge-engine.ts:77-105  one push of a feed calls every callback registered
\* with it, one after the other; each runs up to its first await
RECURSIVE Deliver(_, _)
Deliver(e, n) == IF n = 0 THEN e ELSE Deliver(HandleUpdate(e), n - 1)

\* the callbacks of a push that submit need a handler of the model each
CanHandle(e) ==
  (e.running /\ checkAndPlaceOrders(e).pc # "idle") =>
    BagCardinality(e.handlers) + e.subscriptions <= MaxHandlers

Awaiting == BagToSet(hedge.handlers)

HedgeInit ==
  /\ hedge = NoHedge
  /\ stopLoss = NoStopLoss
  /\ PlanIdle
  /\ CoordIdle
  /\ DualIdle
  /\ EngIdle

hedgeOnly == <<coordVars, planVars, dual, engVars, stopLoss>>

\* grvt-hedge-engine.ts:62-68  start(): nothing while running, else subscribeToEvents
\* registers one more callback with each feed
HedgeStart ==
  /\ hedge.subscriptions < MaxSubscriptions
  /\ hedge' = IF hedge.running THEN hedge
              ELSE [hedge EXCEPT !.running = TRUE, !.subscriptions = @ + 1]
  /\ UNCHANGED hedgeOnly

\* grvt-hedge-engine.ts:70-75  stop(): nothing while stopped; the callbacks stay
\* subscribed
HedgeStop ==
  /\ hedge' = [hedge EXCEPT !.running = FALSE]
  /\ UNCHANGED hedgeOnly

\* grvt-hedge-engine.ts:78-85, 107-111
onAccountUpdate(snapshot) ==
  LET e == [hedge EXCEPT !.accountSnapshot = snapshot,
                         !.ready = @ \/ hedge.depthSnapshot # NoSnapshot]
  IN /\ hedge.subscriptions > 0
     /\ CanHandle(e)
     /\ hedge' = Deliver(e, hedge.subscriptions)
     /\ UNCHANGED hedgeOnly

\* grvt-hedge-engine.ts:87-90, 113-117
onOrderUpdate(orders) ==
  LET e == [hedge EXCEPT !.openOrders = orders]
  IN /\ hedge.subscriptions > 0
     /\ CanHandle(e)
     /\ hedge' = Deliver(e, hedge.subscriptions)
     /\ UNCHANGED hedgeOnly

\* grvt-hedge-engine.ts:92-99, 119-123
onDepthUpdate(depth) ==
  LET e == [hedge EXCEPT !.depthSnapshot = depth,
                         !.ready = @ \/ hedge.accountSnapshot # NoSnapshot]
  IN /\ hedge.subscriptions > 0
     /\ CanHandle(e)
     /\ hedge' = Deliver(e, hedge.subscriptions)
     /\ UNCHANGED hedgeOnly

\* grvt-hedge-engine.ts:197-214  both requests of the pair settled, fulfilled or not:
\* lastOrderTime = Date.now()
HedgeResponse ==
  \E h \in Awaiting :
    /\ h.pc = "hedge"
    /\ hedge' = [hedge EXCEPT !.handlers = @ (-) SetToBag({h}), !.sinceOrder = 0]
    /\ UNCHANGED hedgeOnly

\* grvt-hedge-engine.ts:250-256  the stop was created, or createOrder rejected
StopResponse(outcome) ==
  \E h \in Awaiting :
    /\ h.pc = "stop"
    /\ hedge' = IF outcome = "ok"
                   THEN [hedge EXCEPT !.handlers = @ (-) SetToBag({h}), !.sinceOrder = 0]
                   ELSE [hedge EXCEPT !.handlers = @ (-) SetToBag({h}), !.lastError = "error"]
    /\ UNCHANGED hedgeOnly

\* 2.5 s pass
HedgeClock ==
  /\ hedge.sinceOrder < Cooldown \/ hedge.sinceSubmit < Cooldown
  /\ hedge' = [hedge EXCEPT
                 !.sinceOrder = IF @ < Cooldown THEN @ + 1 ELSE @,
                 !.sinceSubmit = IF @ < Cooldown THEN @ + 1 ELSE @]
  /\ UNCHANGED hedgeOnly

\* the steps other than start()
HedgeRun ==
  \/ HedgeStop
  \/ \E snapshot \in HedgePositions : onAccountUpdate(snapshot)
  \/ \E orders \in HedgeOrderLists : onOrderUpdate(orders)
  \/ \E depth \in HedgeDepths : onDepthUpdate(depth)
  \/ HedgeResponse
  \/ \E outcome \in {"ok", "error"} : StopResponse(outcome)
  \/ HedgeClock

HedgeNext == HedgeStart \/ HedgeRun

SpecHedge == HedgeInit /\ [][HedgeNext]_vars

\* time passes, the venue settles every createOrder, and the depth feed keeps calling
\* back while the engine is subscribed to it
HedgeFairness ==
  /\ WF_vars(HedgeClock)
  /\ WF_vars(HedgeResponse)
  /\ WF_vars(\E outcome \in {"ok", "error"} : StopResponse(outcome))
  /\ WF_vars(\E depth \in HedgeDepths : onDepthUpdate(depth))

\* the engine that is started once: after stop() it stays stopped
HedgeStartOnce == HedgeStart /\ hedge'.subscriptions <= 1

HedgeLiveNext == HedgeStartOnce \/ HedgeRun

SpecHedgeLive == HedgeInit /\ [][HedgeLiveNext]_vars /\ HedgeFairness

(***************************************************************************)
(* The specification of the engine under rate limiting: the position does  *)
(* not change, so that no stop is replaced, and the venue answers a        *)
(* request or fails it with a rate-limit error                             *)
(***************************************************************************)
RateAnswers == {"ok", "rateLimit"}

RateNext ==
  \/ \E decision \in {"proceed", "paused", "skip"} : Tick(decision)
  \/ \E id \in OrderIds, outcome \in RateAnswers : CancelResponse(id, outcome)
  \/ PlaceNext
  \/ \E c \in CallIds : Resume(c)
  \/ \E c \in CallIds, outcome \in RateAnswers : EngSubmitResponse(c, outcome)
  \/ CheckRisk
  \/ AfterStop
  \/ Flush
  \/ \E outcome \in RateAnswers : FlushResponse(outcome)
  \/ \E k \in LockKeys : TimerExpire(k)
  \/ EngOrderFeed
  \/ PauseElapsed

SpecRate == EngInit /\ [][RateNext]_vars

(***************************************************************************)
(* The specification of the engine from its construction: no feed has      *)
(* delivered, the startup reset is not done, and the venue may hold orders  *)
(* of an earlier run                                                        *)
(***************************************************************************)
\* the orders an earlier run has left at the venue: an entering limit order and a stop
Leftovers ==
  {{},
   {VenueOrderOf(2, Params("BUY", "LIMIT", TradeAmount, 1998, Absent, "absent", "absent",
                           "GTX", "absent"))},
   {VenueOrderOf(2, Params("BUY", "LIMIT", TradeAmount, 1998, Absent, "absent", "absent",
                           "GTX", "absent")),
    VenueOrderOf(4, Params("SELL", "STOP_MARKET", TradeAmount, Absent, 1990, "true", "true",
                           "GTC", "STOP_LOSS"))}}

\* the book the depth feed delivers: empty, or 100.0 bid and 100.1 ask
Books == {NoTop, [bid |-> 2000, ask |-> 2002]}

StartInit ==
  /\ CoordInit
  /\ PlanIdle /\ OtherIdle
  /\ DualIdle
  /\ venue \in Leftovers
  /\ eng = NoEng

\* the orders of the earlier run leave the venue before the reset has cancelled them
OrdersLapse ==
  /\ venue # {}
  /\ ~eng.initialOrderResetDone
  /\ ~MicrotaskPending
  /\ venue' = {}
  /\ eng' = [eng EXCEPT !.lastTick = NoTick]
  /\ EngineOnly

StartNext ==
  \/ \E decision \in {"proceed", "paused", "skip"} : Tick(decision)
  \/ OverlappingTick
  \/ \E outcome \in Answers : ResetResponse(outcome)
  \/ OrdersLapse
  \/ AccountFeed(Position(100000, 2000))
  \/ \E top \in Books : DepthFeed(top)
  \/ TickerFeed
  \/ EngOrderFeed
  \/ \E id \in OrderIds, outcome \in Answers \cup RateAnswers : CancelResponse(id, outcome)
  \/ PlaceNext
  \/ \E c \in CallIds : Resume(c)
  \/ \E c \in CallIds : EngSubmitResponse(c, "ok")
  \/ CheckRisk
  \/ AfterStop
  \/ Flush
  \/ \E outcome \in RateAnswers : FlushResponse(outcome)
  \/ \E k \in LockKeys : TimerExpire(k)
  \/ PauseElapsed

SpecStart == StartInit /\ [][StartNext]_vars

(***************************************************************************)
(* The specification of the engine when the venue rejects placements for   *)
(* insufficient balance: the position does not change, and a cancel may be *)
(* answered with a rate-limit error                                        *)
(***************************************************************************)
BalanceAnswers == {"ok", "insufficient"}

BalanceNext ==
  \/ \E decision \in {"proceed", "paused", "skip"} : Tick(decision)
  \/ \E id \in OrderIds, outcome \in RateAnswers : CancelResponse(id, outcome)
  \/ PlaceNext
  \/ \E c \in CallIds : Resume(c)
  \/ \E c \in CallIds, outcome \in BalanceAnswers : EngSubmitResponse(c, outcome)
  \/ CheckRisk
  \/ AfterStop
  \/ Flush
  \/ \E outcome \in RateAnswers : FlushResponse(outcome)
  \/ \E k \in LockKeys : TimerExpire(k)
  \/ EngOrderFeed
  \/ PauseElapsed
  \/ CooldownElapsed

SpecBalance == EngInit /\ [][BalanceNext]_vars

(***************************************************************************)
(* The specification of layered quoting: the account is flat, the orders   *)
(* of both layers rest at the venue, and the best bid moves                *)
(***************************************************************************)
\* 100.0 bid and 100.2 ask, and the bid one tick higher
LayerBooks == {[bid |-> 2000, ask |-> 2004], [bid |-> 2002, ask |-> 2004]}

\* session-volume.ts:572-597  the order placeOrder creates for a desired order
OrderOfTarget(target) ==
  LET params == CreateParams([Place("placeOrder", target.side, target.reduceOnly, FALSE,
                                    "inBand", <<>>)
                                EXCEPT !.price = target.price, !.amount = target.amount])
  IN VenueOrderOf(VenueIdOf(params), params)

\* the orders that rest once the layers of a book are placed
Resting(top) == {OrderOfTarget(Layers(top, 0)[i]) : i \in DOMAIN Layers(top, 0)}

LayerInit ==
  /\ CoordInit
  /\ PlanIdle /\ OtherIdle
  /\ DualIdle
  /\ venue = Resting([bid |-> 2000, ask |-> 2004])
  /\ eng = [Running EXCEPT !.top = [bid |-> 2000, ask |-> 2004],
                           !.openOrders = OrdersById(venue)]

LayerNext ==
  \/ Tick("proceed")
  \/ \E top \in LayerBooks : DepthFeed(top)
  \/ \E id \in OrderIds, outcome \in Answers : CancelResponse(id, outcome)
  \/ PlaceNext
  \/ \E c \in CallIds : Resume(c)
  \/ \E c \in CallIds, outcome \in Answers : EngSubmitResponse(c, outcome)
  \/ \E c \in CallIds, outcome \in Answers : EngDedupeResponse(c, outcome)
  \/ CheckRisk
  \/ \E k \in LockKeys : TimerExpire(k)
  \/ EngOrderFeed

SpecLayers == LayerInit /\ [][LayerNext]_vars

(***************************************************************************)
(* Claims about makeOrderPlan                                               *)
(***************************************************************************)
\* the pairing relation as the claims word it: same side, same reduceOnly, and a
\* price equal as a string or, when the tolerance is positive, within it
PairMatches(o, d, tol) ==
  /\ o.side = d.side
  /\ o.reduceOnly = d.reduceOnly
  /\ \/ o.price = d.price
     \/ /\ IsFinite(tol) /\ tol > 0
        /\ IsFinite(Number(o.price)) /\ IsFinite(Number(d.price))
        /\ Abs(Number(o.price) - Number(d.price)) <= tol

OneToOnePairing(O, D, tol) ==
  /\ Len(O) = Len(D)
  /\ \E f \in [DOMAIN O -> DOMAIN D] :
       /\ \A i, j \in DOMAIN O : i # j => f[i] # f[j]
       /\ \A i \in DOMAIN O : PairMatches(O[i], D[f[i]], tol)

NoPairMatches(O, D, tol) ==
  \A i \in DOMAIN O : \A j \in DOMAIN D : ~PairMatches(O[i], D[j], tol)

WithoutDust(D) == SelectSeq(D, LAMBDA t : ~(t.amount <= DustEps))

PlanDone == planOut.done

\* C5: whenever a one-to-one pairing of all of O with all of D exists, the plan
\* cancels nothing and places nothing, whatever the order of O and D.
C5_FullyPairedPlanIsEmpty ==
  (PlanDone /\ OneToOnePairing(planIn.O, planIn.D, planIn.tol))
    => (planOut.toCancel = <<>> /\ planOut.toPlace = <<>>)

\* C6: when no open order matches any intent, the plan cancels exactly O and
\* places exactly D without its dust intents, both in input order.
C6_DisjointPlanIsComplete ==
  (PlanDone /\ NoPairMatches(planIn.O, planIn.D, planIn.tol))
    => (planOut.toCancel = planIn.O /\ planOut.toPlace = WithoutDust(planIn.D))

C6_Witness ==
  /\ PlanDone
  /\ NoPairMatches(planIn.O, planIn.D, planIn.tol)
  /\ Len(planIn.O) = 2 /\ Len(planIn.D) = 2
  /\ planIn.tol > 0
  /\ Len(planOut.toPlace) = 1
  /\ planOut.toCancel = planIn.O


(***************************************************************************)
(* Claims about the locks of the coordinator                               *)
(***************************************************************************)
SubmitInFlight(c) == calls[c].pc = "submit"

\* C1: for any interleaving of placement calls on one lock map, at most one
\* createOrder is in flight per lock key at any time, also when the calls are
\* started back-to-back before any of them has taken the lock.
C1_OneSubmitInFlightPerKey ==
  \A a, b \in CallIds :
    (a # b /\ SubmitInFlight(a) /\ SubmitInFlight(b))
      => LockKeyOf(calls[a].inp) # LockKeyOf(calls[b].inp)

\* C10: locks are keyed by type, side and intent, so a placement is rejected as
\* locked only by an operation of its own side and intent: a SELL-close limit
\* placement is not rejected while a BUY-open limit placement holds its lock.
C10_RejectedOnlyByOwnClass ==
  lastReturn.result = "locked"
    => /\ lastReturn.blockedBy.side = lastReturn.inp.side
       /\ lastReturn.blockedBy.reduceOnly = lastReturn.inp.reduceOnly

\* the expiry of the timer of key k, seen from outside
Expired(k) == timers[k] = "armed" /\ timers'[k] = "fired"

\* C4: when the timer armed by lockOperating expires the key is unlocked, its
\* pending id is null and the expiry is logged; and no key stays locked forever:
\* every locked state is eventually followed by an unlocked one, also when the
\* venue never answers the operation that locked.
C4_LockExpires ==
  /\ [][\A k \in LockKeys :
         Expired(k) => /\ ~locks'[k]
                       /\ pendings'[k] = NULL
                       /\ lastLog' = Log("info", "timeout", k)]_vars
  /\ \A k \in LockKeys : locks[k] ~> ~locks[k]

\* the timer has just released a key whose createOrder is still unanswered
C4_Witness ==
  \E c \in CallIds :
    /\ SubmitInFlight(c)
    /\ lastLog = Log("info", "timeout", LockKeyOf(calls[c].inp))
    /\ ~locks[LockKeyOf(calls[c].inp)]
    /\ pendings[LockKeyOf(calls[c].inp)] = NULL

(***************************************************************************)
(* Claims about deduplicateOrders                                          *)
(***************************************************************************)
\* the orders of the requested type and side, the type compared without case
OfTypeAndSide(inp) ==
  SelectSeq(inp.oo, LAMBDA o : ToUpperCase(o.type) = inp.type /\ o.side = inp.side)

\* the same, where a request for STOP_MARKET also takes every order of the side
\* that carries a positive stopPrice
OfTypeAndSideOrStopLike(inp) ==
  SelectSeq(inp.oo, LAMBDA o :
    /\ o.side = inp.side
    /\ \/ ToUpperCase(o.type) = inp.type
       \/ inp.type = "STOP_MARKET" /\ IsStopLike(o))

IdsOf(s, skip) == {s[j].orderId : j \in DOMAIN s \ {skip}}

\* sent is one bulk cancel of all of `such` but a newest one, or nothing
KeepsNewest(such, sent) ==
  IF Len(such) >= 2
    THEN /\ Len(sent) = 1
         /\ sent[1].kind = "cancelOrders"
         /\ Len(sent[1].orderIdList) = Len(such) - 1
         /\ \E k \in DOMAIN such :
              /\ \A j \in DOMAIN such : SortKey(such[j]) <= SortKey(such[k])
              /\ {sent[1].orderIdList[i] : i \in DOMAIN sent[1].orderIdList} = IdsOf(such, k)
    ELSE sent = <<>>

\* the calls of deduplicateOrders that await the venue
DedupeCalls ==
  {c \in CallIds : calls[c].inp.op = "deduplicateOrders" /\ calls[c].pc = "dedupe"}

\* C9 as stated: with two or more orders of the requested (type, side) one bulk
\* cancel names all of them but the one with the greatest updateTime (or time);
\* with at most one such order no venue call is made.
C9_KeepsNewestOfTypeAndSide ==
  /\ \A c \in DedupeCalls : KeepsNewest(OfTypeAndSide(calls[c].inp), calls[c].sent)
  /\ lastReturn.inp.op = "deduplicateOrders"
       => KeepsNewest(OfTypeAndSide(lastReturn.inp), lastReturn.sent)

\* C9, amended: the orders deduplicated are those of the requested type and side
\* and, for STOP_MARKET, every order of the side with a positive stopPrice. With
\* two or more of them one bulk cancel names all but a newest one; with at most
\* one, no venue call is made and locks, timers and pending ids are not touched.
C9_KeepsNewestStopLikeIncluded ==
  /\ [](\A c \in DedupeCalls :
          KeepsNewest(OfTypeAndSideOrStopLike(calls[c].inp), calls[c].sent))
  /\ [](lastReturn.inp.op = "deduplicateOrders"
          => KeepsNewest(OfTypeAndSideOrStopLike(lastReturn.inp), lastReturn.sent))
  /\ [][(lastReturn'.inp.op = "deduplicateOrders" /\ lastReturn'.sent = <<>>)
          => UNCHANGED <<locks, timers, pendings>>]_vars

\* the bulk cancel of the older of two stop-like orders is awaited, the newer one,
\* a LIMIT order with a stopPrice, being kept, while another key is held
C9_Witness ==
  \E c \in DedupeCalls :
    /\ locks["LIMIT"] /\ pendings["LIMIT"] # NULL /\ calls[c].inp.type = "STOP_MARKET"
    /\ Len(calls[c].inp.oo) = MaxOrders
    /\ \E i \in DOMAIN calls[c].inp.oo : calls[c].inp.oo[i].orderId = 6
    /\ calls[c].sent[1].orderIdList = <<5>>

(***************************************************************************)
(* Claims about placeAtomicDualWithStops                                   *)
(***************************************************************************)
\* the parameters of the createOrder requests among reqs, in the order sent
RECURSIVE CreateOrderParams(_)
CreateOrderParams(reqs) ==
  IF reqs = <<>> THEN <<>>
  ELSE (IF Head(reqs).kind = "createOrder" THEN <<Head(reqs).params>> ELSE <<>>)
       \o CreateOrderParams(Tail(reqs))

SequentialDone ==
  /\ dual.pc = "returned"
  /\ dual.result = "orders"
  /\ dual.sent[Len(dual.sent)].kind = "createOrder"

\* C7: with attachStops the sequential path submits the same four orders as the
\* bulk path, field by field, and reports to its caller the order set the bulk
\* path reports: the orders the venue created for those four requests.
C7_SequentialEqualsBulk ==
  (SequentialDone /\ dual.inp.attachStops)
    => /\ CreateOrderParams(dual.sent) = BulkParams(dual.inp)
       /\ [i \in DOMAIN dual.reported |-> dual.reported[i].params] = BulkParams(dual.inp)

(***************************************************************************)
(* Claims about the engine                                                 *)
(***************************************************************************)
\* the trigger ensureStopLossOrder aims at for a position
StopTargetOf(position) ==
  RoundToTick(calcStopLossPrice(position.entryPrice, Abs(position.positionAmt),
                                IF position.positionAmt > 0 THEN "long" ELSE "short",
                                LossLimit * 2))

\* the venue holds a stop on the closing side within one tick of the target
Protected ==
  \E o \in venue :
    /\ o.type = "STOP_MARKET"
    /\ o.side = (IF eng.position.positionAmt > 0 THEN "SELL" ELSE "BUY")
    /\ Abs(o.stopPrice - StopTargetOf(eng.position)) < PriceTick

\* C2: while the position is open with a known entry price and stays unchanged, a
\* protective order on the closing side within one priceTick of the target, once it
\* exists, keeps existing from then on
C2_ProtectiveOrderKeepsExisting ==
  [][(HasEntryPrice(eng.position) /\ Protected /\ eng'.position = eng.position)
       => Protected']_vars

\* C3: every tick that happens while shouldBlockEntries() is true, the paused ticks
\* included, still runs the stop-loss check for the open position
C3_BlockedTickStillChecksRisk ==
  (eng.lastTick.decision # "none" /\ eng.lastTick.blocked) => eng.lastTick.risk.checked

\* C8: with an existing protective order of trigger T and the rounded target T',
\* ensureStopLossOrder cancels the order and places a new one if and only if
\* |T - T'| >= priceTick, and does neither when |T - T'| < priceTick
C8_ReplaceIffBeyondTick ==
  LET r == eng.lastTick.risk
  IN (r.ran /\ IsFinite(r.existing)) =>
       /\ (r.cancelled /\ r.created) <=> (Abs(r.existing - r.target) >= PriceTick)
       /\ Abs(r.existing - r.target) < PriceTick => ~r.cancelled /\ ~r.called

\* C11: the target ensureStopLossOrder computes for the position is
\* entry -/+ lossLimit / |quantity| rounded to the price tick, so that the loss of the
\* full position at the trigger does not exceed lossLimit
C11_TargetWithinLossLimit ==
  LET t == eng.lastTick
      direction == IF t.position.positionAmt > 0 THEN "long" ELSE "short"
  IN t.risk.ran =>
       /\ t.risk.target = RoundToTick(calcStopLossPrice(t.position.entryPrice,
                                                        Abs(t.position.positionAmt),
                                                        direction, LossLimit))
       /\ Abs(t.position.entryPrice - t.risk.target) * Abs(t.position.positionAmt)
            <= LossLimit * 100000

\* the parameters of every order a request asks the venue to create
ParamsOfRequest(req) ==
  IF req.kind = "createOrder" THEN {req.params}
  ELSE IF req.kind = "createBulkOrders" THEN {req.list[i] : i \in DOMAIN req.list}
  ELSE {}

ParamsOfRequests(sent) == UNION {ParamsOfRequest(sent[i]) : i \in DOMAIN sent}

SubmittedParams ==
  ParamsOfRequests(dual.sent) \cup UNION {ParamsOfRequests(calls[c].sent) : c \in CallIds}

\* C12: every STOP_MARKET order submitted by any path is reduce-only and
\* close-position, and its triggerType is STOP_LOSS on side SELL and TAKE_PROFIT on
\* side BUY
C12_StopOrdersTriggerTypeBySide ==
  \A p \in SubmittedParams :
    p.type = "STOP_MARKET" =>
      /\ p.reduceOnly = "true"
      /\ p.closePosition = "true"
      /\ p.triggerType = (IF p.side = "SELL" THEN "STOP_LOSS" ELSE "TAKE_PROFIT")

\* C13: with lastPrice known, placeStopLossOrder submits nothing and takes no lock
\* for a SELL stop at or above lastPrice or a BUY stop at or below it, and every stop
\* order it submits has its submitted trigger strictly below lastPrice for SELL and
\* strictly above lastPrice for BUY
C13_SubmittedStopBeyondLastPrice ==
  /\ \A c \in CallIds :
        LET inp == calls[c].inp
        IN (inp.op = "placeStopLossOrder" /\ IsFinite(inp.lastPrice)) =>
             \A p \in ParamsOfRequests(calls[c].sent) :
               IF inp.side = "SELL" THEN p.stopPrice < inp.lastPrice
               ELSE p.stopPrice > inp.lastPrice
  /\ (lastReturn.inp.op = "placeStopLossOrder" /\ ThroughLastPrice(lastReturn.inp)) =>
        lastReturn.sent = <<>>

\* C14: every completed placeOrder call leaves its class unlocked: once it has
\* returned an order, returned undefined or thrown, the lock of its key is false
C14_CompletedPlaceOrderUnlocked ==
  (lastReturn.inp.op = "placeOrder" /\ lastReturn.result \in {"order", "undefined", "thrown"})
    => ~locks[LockKeyOf(lastReturn.inp)]

\* C15: a placement operation whose venue submit failed with an unknown-order error
\* has returned undefined, and one whose submit failed with another error has
\* thrown it; in both cases the lock of its key is released and its pending id
\* cleared by the time the caller gets control
C15_FailedSubmitUnlocks ==
  /\ lastReturn.result \in {"undefined", "thrown"} =>
        /\ ~locks[LockKeyOf(lastReturn.inp)]
        /\ pendings[LockKeyOf(lastReturn.inp)] = NULL
        /\ lastReturn.sent # <<>>
        /\ lastReturn.sent[Len(lastReturn.sent)].kind = "createOrder"
        /\ lastReturn.result = "undefined" <=> lastLog = Log("order", "gone", LockKeyOf(lastReturn.inp))
  /\ dual.result \in {"undefined", "thrown"} =>
        ~locks["LIMIT"] /\ pendings["LIMIT"] = NULL

\* a submit has failed while a second call holds the same key
C15_Witness ==
  /\ lastReturn.result \in {"undefined", "thrown"}
  /\ \E c \in CallIds : calls[c].pc = "submit" /\ LockKeyOf(calls[c].inp) = LockKeyOf(lastReturn.inp)

(***************************************************************************)
(* Claims about the start of the engine and the entry guard of tick()      *)
(***************************************************************************)
\* the engine but for the observation of the step
Untraced(e) == [e EXCEPT !.lastTick = NoTick]

\* C16: at most one execution of tick() is past the entry guard: the flag processing is
\* set exactly while an execution is in flight, a tick fired meanwhile returns with no
\* venue call and no change of state, and every exit of the active tick clears the flag
C16_OneTickPastGuard ==
  [][/\ eng'.processing <=> eng'.pc # "idle"
     /\ eng'.lastTick.exit \notin {"none", "busy"} => ~eng'.processing
     /\ eng'.lastTick.exit = "busy" /\ eng.lastTick.exit # "busy" =>
          /\ eng.processing
          /\ Untraced(eng') = Untraced(eng)
          /\ venue' = venue
          /\ calls' = calls
          /\ UNCHANGED lockVars]_vars

\* a tick is fired while the active tick is suspended in the flush of its catch block
C16_Witness ==
  /\ eng.lastTick.exit = "busy"
  /\ eng.pc = "flushWait"
  /\ eng.hadRateLimit

(***************************************************************************)
(* Claims about the cycle that ends with a rate-limit error                *)
(***************************************************************************)
\* the open orders that are not protective and have no cancellation requested
Unswept ==
  {eng.openOrders[i].orderId : i \in {j \in DOMAIN eng.openOrders :
                                        /\ ~IsTriggerLike(eng.openOrders[j])
                                        /\ eng.openOrders[j].orderId \notin eng.pendingCancel}}

\* C17: a cycle that ends with a rate-limit error has requested the cancellation of
\* every open order that is not protective, and of no protective order
C17_RateLimitSweep ==
  eng.lastTick.hadRateLimit => Unswept = {} /\ ~eng.lastTick.stopCancelSent

\* C18: a cycle in which the venue has answered the createOrder of placeOrder or of
\* placeStopLossOrder with a rate-limit error ends with hadRateLimit = true
C18_RateLimitReachesHandler ==
  eng.lastTick.venueRateLimited => eng.lastTick.hadRateLimit

(***************************************************************************)
(* Claims about the startup reset and the readiness of the feeds           *)
(***************************************************************************)
\* no request of the engine is in flight but, possibly, cancelAllOrders
NothingSent(e, cs) ==
  /\ e.pc \in {"idle", "reset"}
  /\ e.cancels = {}
  /\ ~e.cancelSent
  /\ \A c \in CallIds : cs[c].pc = "idle" /\ cs[c].sent = <<>>

\* C19: before the startup reset is done no cancelOrder and no createOrder is sent; a
\* ready tick with open orders calls cancelAllOrders; its success or an unknown-order
\* answer complete the reset, another error ends the tick with the reset not done; once it is done it stays done and cancelAllOrders is not called again
C19_NoOrderBeforeStartupReset ==
  [][/\ ~eng'.initialOrderResetDone => NothingSent(eng', calls') /\ lastReturn'.sent = <<>>
     /\ eng.initialOrderResetDone => eng'.initialOrderResetDone /\ eng'.pc # "reset"
     /\ (~eng.processing /\ eng'.processing /\ ~eng.initialOrderResetDone
           /\ eng.openOrders # <<>>) => eng'.pc = "reset"
     /\ (eng.pc = "reset" /\ eng'.pc # "reset") =>
          IF lastLog'.what \in {"startup-reset", "no-orders"}
            THEN eng'.initialOrderResetDone /\ eng'.openOrders = <<>>
            ELSE /\ ~eng'.initialOrderResetDone
                 /\ ~eng'.processing
                 /\ eng'.lastTick.exit = "resetFailed"
                 /\ venue' = venue]_vars

\* the reset has just completed with orders cancelled at the venue, and the tick has
\* gone on to its placements
C19_Witness ==
  /\ eng.initialOrderResetDone
  /\ lastLog = Log("order", "startup-reset", "none")
  /\ eng.pc = "placing"
  /\ eng.toPlace # <<>>

\* each of the account, order, depth and ticker feeds has delivered a snapshot
AllDelivered(e) == \A f \in {"account", "orders", "depth", "ticker"} : e.feedStatus[f]

\* C20: until the four feeds have each delivered, no cancelAllOrders, cancelOrder or
\* createOrder is sent and a tick ends at the readiness test publishing ready = false;
\* once the four have delivered, the engine stays ready
C20_NoActionUntilFeedsReady ==
  [][/\ ~AllDelivered(eng') =>
          /\ eng'.pc = "idle"
          /\ NothingSent(eng', calls')
          /\ lastReturn'.sent = <<>>
          /\ eng'.lastTick.exit \in {"none", "notReady"}
          /\ ~eng'.lastTick.ready
     /\ eng'.lastTick.exit = "notReady" => ~AllDelivered(eng')
     /\ AllDelivered(eng) => AllDelivered(eng') /\ isReady(eng')]_vars

\* a tick has ended at the readiness test while only the order feed is missing and the
\* venue holds orders of an earlier run
C20_Witness ==
  /\ eng.lastTick.exit = "notReady"
  /\ eng.feedStatus = [account |-> TRUE, depth |-> TRUE, ticker |-> TRUE, orders |-> FALSE]
  /\ venue # {}

(***************************************************************************)
(* Claims about the insufficient-balance cooldown                          *)
(***************************************************************************)
\* a cycle has just ended
CycleEnded == eng.lastTick.exit \notin {"none", "busy"}

\* C21: a cycle fired during the insufficient-balance cooldown desires and places no
\* entry order, and still desires the reduce-only close order and runs the stop-loss
\* check; a cycle that finds the cooldown over produces the entry intent again unless
\* the rate limiter blocks entries, and logs the recovery only if a notice was pending
C21_CooldownBlocksEntriesOnly ==
  LET t == eng.lastTick
      b == t.balance
  IN /\ (CycleEnded /\ b.cooling) =>
          /\ ~b.entryDesired
          /\ ~b.entryPlaced
          /\ b.closeDesired
          /\ t.risk.checked
     /\ (b.applied /\ ~b.active /\ ~t.blocked) => b.entryDesired
     /\ b.recovered => b.applied /\ ~b.active

(***************************************************************************)
(* Claims about marketClose and the quantities of closing orders           *)
(***************************************************************************)
\* C22: every order marketClose submits is a reduce-only LIMIT order with timeInForce
\* IOC, priced at the expected price of the guard or else at its mark price, and no
\* operation submits an order of type MARKET
C22_MarketCloseIsIocLimitAtExpected ==
  /\ \A c \in CallIds : calls[c].inp.op = "marketClose" =>
        \A p \in ParamsOfRequests(calls[c].sent) :
          /\ p.type = "LIMIT"
          /\ p.timeInForce = "IOC"
          /\ p.reduceOnly = "true"
          /\ p.price \in {calls[c].inp.expectedPrice, calls[c].inp.markPrice} \ {Absent}
          /\ calls[c].inp.expectedPrice # Absent => p.price = calls[c].inp.expectedPrice
  /\ \A p \in SubmittedParams : p.type # "MARKET"

\* C28: a reduce-only placeOrder and a marketClose asked for a positive quantity below
\* one step submit at least one step, and the order of marketClose carries timeInForce
\* IOC, reduceOnly and closePosition
C28_ClosingQuantityAtLeastOneStep ==
  \A c \in CallIds : \A p \in ParamsOfRequests(calls[c].sent) :
    /\ (calls[c].inp.op \in {"placeOrder", "marketClose"} /\ calls[c].inp.reduceOnly
          /\ calls[c].inp.amount > 0) => p.quantity >= QtyStep
    /\ calls[c].inp.op = "marketClose" =>
          p.timeInForce = "IOC" /\ p.reduceOnly = "true" /\ p.closePosition = "true"

(***************************************************************************)
(* Claims about unlockOperating                                            *)
(***************************************************************************)
\* C23: unlockOperating leaves the key with lock false, pending id null and timer
\* null, whatever the key held before (armed, fired or never locked) and without
\* touching another key; applied a second time it changes nothing; and a timer is
\* armed only while its key is locked, so that no expiry callback is left to fire on
\* a key that was unlocked
C23_UnlockIsIdempotent ==
  \A type \in LockKeys :
    LET U == unlockOperating(LockState, type)
    IN /\ U.locks[type] = FALSE /\ U.pendings[type] = NULL /\ U.timers[type] = NULL
       /\ \A k \in LockKeys \ {type} :
            U.locks[k] = locks[k] /\ U.pendings[k] = pendings[k] /\ U.timers[k] = timers[k]
       /\ unlockOperating(U, type) = U
       /\ timers[type] = "armed" => locks[type]

\* a failed submission has unlocked the key whose timer was armed, while another key
\* was never locked
C23_Witness ==
  /\ lastReturn.result = "thrown"
  /\ ~locks[LockKeyOf(lastReturn.inp)]
  /\ timers[LockKeyOf(lastReturn.inp)] = NULL
  /\ pendings[LockKeyOf(lastReturn.inp)] = NULL
  /\ \E k \in LockKeys : holder[k] = NoClass /\ timers[k] = NULL

(***************************************************************************)
(* Claims about shouldStopLoss                                             *)
(***************************************************************************)
\* the profit of the position closed at the quote
PnlAt(position, quote) == position.positionAmt * (quote - position.entryPrice)

\* C27: shouldStopLoss returns false when the closing quote (bid of a long, ask of a
\* short) is not finite or not positive, when the position is flat and when the entry
\* price is not finite or zero; otherwise it returns true exactly when the profit at
\* that quote is below -lossLimit
C27_StopLossOnValidQuoteOnly ==
  stopLoss.returned =>
    LET position == stopLoss.position
        quote == IF position.positionAmt > 0 THEN stopLoss.bestBid ELSE stopLoss.bestAsk
        flat == position.positionAmt = 0
        invalidEntry == position.entryPrice \in {NaN, 0}
        badQuote == quote = NaN \/ quote <= 0
    IN stopLoss.result = IF flat \/ invalidEntry \/ badQuote THEN FALSE
                         ELSE PnlAt(position, quote) < 0 - stopLoss.lossLimit

\* a long position at a valid entry, asked with a bid of zero
C27_Witness ==
  /\ stopLoss.returned
  /\ ~stopLoss.result
  /\ stopLoss.position.positionAmt = TradeAmount
  /\ stopLoss.position.entryPrice = 2000
  /\ stopLoss.bestBid = 0
  /\ stopLoss.bestAsk = 2000

(***************************************************************************)
(* Claims about GrvtHedgeEngine                                            *)
(***************************************************************************)
\* C25: GrvtHedgeEngine submits orders, a hedge pair or a stop, at most once per
\* cooldown window of 5 seconds under every interleaving of the feed callbacks: two
\* submissions are never less than the cooldown apart
C25_OneSubmissionPerCooldown == hedge.lastGap >= Cooldown

\* a running engine holds an open position and knows of no active stop order
Unprotected ==
  /\ hedge.running
  /\ hedge.accountSnapshot # NoSnapshot
  /\ hedge.accountSnapshot.positionAmt # 0
  /\ activeStopOrders(hedge) = {}

\* the request is a STOP_MARKET order on the closing side of the position whose stop
\* price is the multiple of the tick at or next below entry * (1 -/+ stopLossPct)
IsStopFor(p, position) ==
  LET exact == IF position.positionAmt > 0
                 THEN position.entryPrice * (1000 - HedgeConfig.stopLossPct)
                 ELSE position.entryPrice * (1000 + HedgeConfig.stopLossPct)
  IN /\ p.type = "STOP_MARKET"
     /\ p.side = (IF position.positionAmt > 0 THEN "SELL" ELSE "BUY")
     /\ p.stopPrice % HedgeConfig.priceTick = 0
     /\ p.stopPrice * 1000 <= exact
     /\ exact < (p.stopPrice + HedgeConfig.priceTick) * 1000

StopAwaited == \E h \in Awaiting : h.pc = "stop"

ClaimedMatch(order, target, tol) ==
  /\ target.side = order.side
  /\ target.reduceOnly = order.reduceOnly
  /\ \/ order.price = target.price
     \/ /\ tol # NaN /\ tol > 0
        /\ Number(order.price) # NaN /\ Number(target.price) # NaN
        /\ Abs(Number(order.price) - Number(target.price)) <= tol

\* the one-to-one assignments of some orders of O to intents of D
Assignments(O, D) ==
  UNION {{m \in [S -> DOMAIN D] : \A a, b \in S : a # b => m[a] # m[b]} :
         S \in SUBSET DOMAIN O}

\* the plan is the partition that the assignment m makes
PartitionedBy(m, O, D, tol, plan) ==
  /\ \A k \in DOMAIN m : ClaimedMatch(O[k], D[m[k]], tol)
  /\ plan.toCancel = PickInOrder(O, DOMAIN O \ DOMAIN m, 1)
  /\ plan.toPlace =
       PickInOrder(D, {i \in DOMAIN D : i \notin {m[k] : k \in DOMAIN m}
                                         /\ D[i].amount > DustEps}, 1)

\* C29: the plan partitions its inputs: the open orders are assigned one-to-one to
\* intents they match, the orders left over are toCancel in input order, the intents
\* nobody was assigned to and whose amount exceeds 1e-5 are toPlace in input order,
\* and the arguments are as they were
C29_PlanPartitionsInputs ==
  /\ [](PlanDone => \E m \in Assignments(planIn.O, planIn.D) :
                      PartitionedBy(m, planIn.O, planIn.D, planIn.tol, planOut))
  /\ [][planIn' = planIn]_vars

\* of two orders one is matched within the tolerance and one cancelled, and of two
\* intents the unmatched one is placed
C29_Witness ==
  /\ PlanDone
  /\ Len(planIn.O) = 2 /\ Len(planIn.D) = 2
  /\ planIn.tol = 1
  /\ Len(planOut.toCancel) = 1
  /\ Len(planOut.toPlace) = 1
  /\ planIn.O[1] = planIn.O[2]

(***************************************************************************)
(* Claims about the errors of deduplicateOrders                            *)
(***************************************************************************)
\* C30: deduplicateOrders never throws, and when its bulk cancel has answered, with
\* success, with an order-not-found error or with any other error, it logs the answer
\* (an error line only for the other errors), leaves the lock of its key released and
\* returns to its caller
C30_DedupeAlwaysUnlocks ==
  [][/\ \A c \in CallIds :
         (calls[c].pc = "dedupe" /\ calls'[c] # calls[c]) =>
           LET inp == calls[c].inp
               key == LockKeyOf(inp)
           IN /\ ~locks'[key] /\ timers'[key] = NULL /\ pendings'[key] = NULL
              /\ lastLog' \in {Log("order", "dedupe", key), Log("order", "dedupe-gone", key),
                               Log("error", "dedupe-failed", key)}
              /\ IF inp.op = "deduplicateOrders"
                   THEN calls'[c] = IdleCall /\ lastReturn'.result = "void"
                   ELSE calls'[c].pc = "resume"
     /\ lastReturn'.inp.op = "deduplicateOrders" => lastReturn'.result = "void"]_vars

\* the bulk cancel of a direct call failed with another error: logged, key released
C30_Witness ==
  /\ lastReturn.inp.op = "deduplicateOrders"
  /\ Len(lastReturn.sent) = 1
  /\ lastReturn.result = "void"
  /\ lastLog = Log("error", "dedupe-failed", LockKeyOf(lastReturn.inp))
  /\ ~locks[LockKeyOf(lastReturn.inp)]

(***************************************************************************)
(* Claims about the errors of a tick                                       *)
(***************************************************************************)
\* C24: the tick of VolumeMakerEngine never rejects: every error of its planning,
\* cancel, placement, stop-loss and rate-limit sweep steps is caught inside the tick,
\* which ends with the guard flag cleared so that the next firing runs a cycle
C24_TickNeverRejects ==
  /\ eng.lastTick.exit # "rejected"
  /\ CycleEnded => ~eng.processing

\* C31: a placement operation (placeOrder, placeMarketOrder, placeStopLossOrder,
\* placeTrailingStopOrder, marketClose, placeAtomicDualWithStops) that is called
\* while its lock key is locked returns undefined without throwing: it does not go
\* on to an await, it sends no cancel and no create, and it leaves locks, timers and
\* pending ids as they are, the expiry timer included.
C31_LockedCallChangesNothing ==
  [][ /\ \A c \in CallIds :
           calls[c].pc = "idle" /\ calls'[c].pc # "idle"
             => ~locks[LockKeyOf(calls'[c].inp)]
      /\ (calls' = calls /\ lastReturn'.inp.op # "none" /\ locks[LockKeyOf(lastReturn'.inp)])
           => /\ lastReturn'.result = "locked"
              /\ lastReturn'.sent = <<>>
              /\ UNCHANGED <<locks, timers, pendings>>
      /\ (dual.pc = "called" /\ dual'.pc # "called" /\ locks["LIMIT"])
           => /\ dual'.pc = "returned" /\ dual'.result = "locked"
              /\ dual'.sent = <<>> /\ dual'.venue = <<>>
              /\ UNCHANGED <<locks, timers, pendings>> ]_vars

\* a placeOrder with duplicates among its open orders, and the atomic call, have both
\* returned on a locked key that is still locked with its timer armed
C31_Witness ==
  /\ lastReturn.result = "locked"
  /\ lastReturn.inp.op = "placeOrder"
  /\ DedupeIdList(lastReturn.inp.oo, "LIMIT", lastReturn.inp.side) # <<>>
  /\ dual.result = "locked"
  /\ locks["LIMIT"] /\ timers["LIMIT"] = "armed"

\* the guard of the atomic call refuses the price of one of its legs
LegOutOfBand == dual.inp.guard \in {"buyOutOfBand", "sellOutOfBand", "outOfBand"}

\* C32: a placement operation whose guard carries a maximum deviation and whose price
\* is outside the mark-price band does not go on to an await: it returns without
\* throwing, sends no cancel and no create and leaves locks, timers and pending ids
\* unchanged, and on a free key it logs the rejection as an info line; for
\* placeAtomicDualWithStops a refusal of either leg sends neither leg.
C32_GuardRejectionChangesNothing ==
  [][ /\ \A c \in CallIds :
           calls[c].pc = "idle" /\ calls'[c].pc # "idle"
             => calls'[c].inp.guard # "outOfBand"
      /\ (calls' = calls /\ lastReturn'.inp.op # "none" /\ lastReturn'.inp.guard = "outOfBand")
           => /\ lastReturn'.result = IF locks[LockKeyOf(lastReturn'.inp)]
                                         THEN "locked" ELSE "guard"
              /\ lastReturn'.sent = <<>>
              /\ UNCHANGED <<locks, timers, pendings>>
              /\ ~locks[LockKeyOf(lastReturn'.inp)]
                    => lastLog' = Log("info", "guard", LockKeyOf(lastReturn'.inp))
      /\ (dual.pc = "called" /\ dual'.pc # "called" /\ LegOutOfBand)
           => /\ dual'.pc = "returned"
              /\ dual'.result = IF locks["LIMIT"] THEN "locked" ELSE "guard"
              /\ dual'.sent = <<>> /\ dual'.venue = <<>>
              /\ UNCHANGED <<locks, timers, pendings>>
              /\ ~locks["LIMIT"] => lastLog' = Log("info", "guard", "LIMIT") ]_vars

\* a placeOrder with duplicates among its open orders has just been refused by the
\* guard, after the atomic call was refused for its SELL leg alone
C32_Witness ==
  /\ lastReturn.result = "guard"
  /\ lastReturn.inp.op = "placeOrder"
  /\ DedupeIdList(lastReturn.inp.oo, "LIMIT", lastReturn.inp.side) # <<>>
  /\ lastLog = Log("info", "guard", "LIMIT")
  /\ dual.result = "guard" /\ dual.inp.guard = "sellOutOfBand"

\* a placeOrder of syncOrders has been called and has not returned
SyncPlacing == \E c \in CallIds : calls[c].pc # "idle" /\ calls[c].inp.op = "placeOrder"

\* C33: within one cycle of syncOrders no placeOrder is called, and so no createOrder
\* is sent, while a cancel request issued by that cycle is unanswered; and the cancel
\* requests a cycle issues are for orders that have no cancel request in flight.
C33_CancelsSettleBeforePlacements ==
  [][ /\ eng'.awaited \subseteq eng'.cancels
      /\ (eng'.pc = "placing" \/ SyncPlacing') => eng'.awaited = {}
      /\ (eng.pc \notin {"cancels", "placing"} /\ eng'.pc = "cancels")
           => /\ eng'.awaited # {}
              /\ eng'.awaited \cap eng.cancels = {}
              /\ eng'.cancels = eng.cancels \cup eng'.awaited ]_vars

\* the placements of a cycle are under way after the cycle cancelled two orders
C33_Witness ==
  /\ eng.pc = "placing" /\ SyncPlacing
  /\ eng.cancelSent
  /\ Cardinality(eng.pendingCancel) >= 2

\* call c has locked key k last, its createOrder is unanswered, and no other call in
\* flight is of its class
HoldsKey(c, k) ==
  /\ calls[c].pc = "submit"
  /\ LockKeyOf(calls[c].inp) = k
  /\ locks[k]
  /\ holder[k] = ClassOf(calls[c].inp)
  /\ \A d \in CallIds \ {c} :
       calls[d].pc # "idle" => ClassOf(calls[d].inp) # ClassOf(calls[c].inp)

\* C34: while an operation holds a key with its request in flight, the lock and the
\* pending id of that key change only by its own response or by the expiry of the
\* timer: not by the unlock that ends a deduplicateOrders, and not by the late
\* response of another operation whose lock has expired.
C34_OnlyTheHolderReleases ==
  [][ \A c \in CallIds, d \in CallIds, k \in LockKeys :
        ( /\ c # d
          /\ HoldsKey(c, k) /\ calls'[c] = calls[c]
          /\ calls[d].pc \in {"dedupe", "submit"} /\ calls'[d] # calls[d] )
          => locks'[k] /\ pendings'[k] = pendings[k] ]_vars

\* C35: the cancel requests of syncOrders that are unanswered are never for a
\* protective order: no open order of type STOP_MARKET or with stopPrice > 0 is
\* among the orders the cycle cancels.
C35_SyncNeverCancelsStop ==
  \A i \in DOMAIN eng.openOrders :
    LET o == eng.openOrders[i]
    IN o.orderId \in eng.awaited
         => ~(ToUpperCase(o.type) = "STOP_MARKET" \/ IsStopLike(o))

\* the ids a placeOrder of syncOrders has asked its dedupe to cancel
DedupeCancels ==
  UNION { {calls[c].sent[1].orderIdList[i] : i \in DOMAIN calls[c].sent[1].orderIdList} :
            c \in {d \in CallIds : calls[d].pc = "dedupe" /\ calls[d].inp.op = "placeOrder"} }

\* C36: within a cycle the orders cancelled are those of the plan's toCancel: the
\* dedupe inside a placeOrder of syncOrders asks to cancel no open order that the
\* plan of the cycle has matched to a desired order, also with several resting LIMIT
\* orders on a side.
C36_DedupeCancelsNoMatchedOrder ==
  eng.pc = "placing" => DedupeCancels \subseteq eng.pendingCancel

\* C37: placeAtomicDualWithStops is all-or-nothing: when it has thrown or returned
\* undefined the venue has created none of its orders, and when it has returned its
\* orders with attachStops the venue holds both entries and both protective orders.
C37_AtomicDualAllOrNothing ==
  dual.pc = "returned" =>
    /\ dual.result # "orders" => dual.venue = <<>>
    /\ (dual.result = "orders" /\ dual.inp.attachStops)
         => /\ Len(dual.venue) = 4
            /\ \A n \in 1..2 : dual.venue[n].params.type = "LIMIT"
            /\ \A n \in 3..4 : dual.venue[n].params.type = "STOP_MARKET"

\* C38: in every reachable state a locked key has an expiry timer that is armed and
\* has not fired, and a key with a pending order id is locked.
C38_LockedHasTimerPendingHasLock ==
  \A k \in LockKeys :
    /\ locks[k] => timers[k] = "armed"
    /\ pendings[k] # NULL => locks[k]

\* C39: a marketClose or placeMarketOrder whose guard is absent or carries neither
\* expectedPrice nor markPrice never has a createOrder in flight under its lock, and
\* no such operation sends an order priced at 0.
C39_NoPriceNoOrder ==
  \A c \in CallIds :
    (calls[c].inp.op \in {"marketClose", "placeMarketOrder"} /\ calls[c].pc = "submit")
      => /\ ExpectedPrice(calls[c].inp) # Absent
         /\ \A i \in DOMAIN calls[c].sent :
              calls[c].sent[i].kind = "createOrder" => calls[c].sent[i].params.price # 0

(***************************************************************************)
(* Claims about start() and stop() of GrvtHedgeEngine                      *)
(***************************************************************************)
\* each feed has at most one callback registered
OneHandlerPerFeed == hedge'.subscriptions <= 1

\* a step starts at most one run of checkAndPlaceOrders that submits
OnePushOneRun ==
  BagCardinality(hedge'.handlers) <= BagCardinality(hedge.handlers) + 1

\* start() while running and stop() while stopped register nothing
IdleCallsChangeNothing ==
  (hedge'.running = hedge.running) => hedge'.subscriptions = hedge.subscriptions

\* while the engine is stopped no callback submits
StoppedSubmitsNothing ==
  ~hedge.running =>
    BagCardinality(hedge'.handlers) <= BagCardinality(hedge.handlers)

\* C40: for every sequence of start() and stop() calls on GrvtHedgeEngine each feed
\* has at most one registered handler, so that one feed push starts at most one
\* checkAndPlaceOrders run; start() while running and stop() while stopped change
\* nothing, and while the engine is stopped a feed push never causes an order to be
\* submitted
C40_OneHandlerPerFeed ==
  [][ /\ OnePushOneRun
      /\ OneHandlerPerFeed
      /\ IdleCallsChangeNothing
      /\ StoppedSubmitsNothing ]_vars


====
